---- MODULE Spec2Model ----
(***************************************************************************)
(* Model of the climate_manager control loop: OnlineTracker, regulators,   *)
(* ZoneWindow, Zone.control_temperature, Circuit.control_circuit and the   *)
(* Hub tick.                                                               *)
(*                                                                         *)
(* Time.  Every deadline of the program is a wall-clock instant compared   *)
(* with dt_util.now() (now() >= target).  The model keeps, for each        *)
(* pending deadline, the time that is left until it (a countdown that      *)
(* stops at 0): "elapsed" is "0 left".  The Advance actions let time pass. *)
(*                                                                         *)
(* Numbers.  Regulator outputs are kept in units of 0.05, so that the      *)
(* hysteresis output 0.05 is 1 and the PID output limits (-1, 1) are       *)
(* (-20, 20); an averaged PID output is the pair <<sum, count>>.           *)
(***************************************************************************)
EXTENDS Integers, Sequences, FiniteSets, TLC

VARIABLES
    tracker,    \* a stand-alone OnlineTracker: [fault, awaiter]
    tr_cb,      \* whether that tracker was built with an offline callback
    tr_last,    \* the last is_online call on it: input, result, what it did
    tr_ep,      \* bookkeeping of the current run of false inputs (episode)
    retry,      \* a stand-alone RetryTracker: [cur_delay, awaiter]
    retry_ep,   \* its run of set_fault calls: how many, how long ago the last
    reg,        \* a stand-alone regulator (PidRegulator or HysteresisRegulator)
    reg_last,   \* the last operation applied to it
    zone_cfg,   \* per zone, its configuration: regulator type, window, TRVs
    zones,      \* per zone, the Zone object's state
    window_state, \* per zone, the state string of its window sensor
    since_open, \* per zone, how long its window has been closed (up to 5 min)
    zone_last,  \* per zone, the last control_temperature call
    boiler_sensor, \* the boiler status sensor: "absent" or its state string
    hub,        \* the Hub object's state
    circuits,   \* per circuit, the Circuit object's state
    hub_last,   \* the last Hub tick: what ran and how it ended
    circuit_last, \* the last call made on a circuit from outside a tick
    ticks       \* per invocation of the tick handler, where it stands

vars == <<tracker, tr_cb, tr_last, tr_ep, retry, retry_ep, reg, reg_last,
          zone_cfg, zones, window_state, since_open, zone_last,
          boiler_sensor, hub, circuits, hub_last, circuit_last, ticks>>

hubVars == <<boiler_sensor, hub, circuits, hub_last, circuit_last, ticks>>

zoneVars == <<zone_cfg, zones, window_state, since_open, zone_last>>

trackerVars == <<tracker, tr_cb, tr_last, tr_ep, retry, retry_ep>>

regVars == <<reg, reg_last>>

\* Python's None, for a deadline or a reading that is absent.
None == -1

\* The wait interval of the stand-alone tracker (a constructor argument).
WaitInterval == 3

\* Counters of the bookkeeping stop counting here ("this many or more").
CountCap == 2

Min(a, b) == IF a <= b THEN a ELSE b

Max(a, b) == IF a >= b THEN a ELSE b

(***************************************************************************)
(* utils.SimpleAwaiter                                                     *)
(***************************************************************************)
\* SimpleAwaiter(wait_time): target_time = now + wait_time.
SimpleAwaiter(wait_time) == wait_time

\* SimpleAwaiter.elapsed: now >= target_time.
Elapsed(awaiter) == awaiter = 0

\* The passing of dt seconds, seen from a deadline (None: no deadline).
AdvanceDeadline(awaiter, dt) ==
    IF awaiter = None THEN None ELSE Max(0, awaiter - dt)

(***************************************************************************)
(* online_tracker.OnlineTracker                                            *)
(***************************************************************************)
OnlineTrackerInit == [fault |-> FALSE, awaiter |-> None]

\* What one is_online call leaves behind: the tracker's fields, the value
\* returned (ret, meaningless when raised), whether the call raised, whether
\* the offline callback was invoked, and the write made to the fault
\* indicator ("none", "on", "off").
TrackerResult(fault, awaiter, ret, raised, called, wrote) ==
    [fault |-> fault, awaiter |-> awaiter, ret |-> ret, raised |-> raised,
     called |-> called, wrote |-> wrote]

\* A mutant of IsOnline: a true input leaves the pending deadline in place.
IsOnlineKeepsAwaiter(tr, online_raw, wait_interval, has_callback, callback_raises) ==
    IF ~online_raw
    THEN IF tr.fault
         THEN TrackerResult(tr.fault, tr.awaiter, FALSE, FALSE, FALSE, "none")
         ELSE IF tr.awaiter = None
         THEN TrackerResult(tr.fault, SimpleAwaiter(wait_interval), TRUE,
                            FALSE, FALSE, "none")
         ELSE IF Elapsed(tr.awaiter)
         THEN IF has_callback /\ callback_raises
              THEN TrackerResult(tr.fault, None, FALSE, TRUE, TRUE, "none")
              ELSE TrackerResult(TRUE, None, FALSE, FALSE, has_callback, "on")
         ELSE TrackerResult(tr.fault, tr.awaiter, TRUE, FALSE, FALSE, "none")
    ELSE TrackerResult(FALSE, tr.awaiter, TRUE, FALSE, FALSE,
                       IF tr.fault THEN "off" ELSE "none")

\* A mutant of IsOnline: the call that finds the deadline elapsed still
\* answers "online".
IsOnlineElapsedTrue(tr, online_raw, wait_interval, has_callback, callback_raises) ==
    IF ~online_raw
    THEN IF tr.fault
         THEN TrackerResult(tr.fault, tr.awaiter, FALSE, FALSE, FALSE, "none")
         ELSE IF tr.awaiter = None
         THEN TrackerResult(tr.fault, SimpleAwaiter(wait_interval), TRUE,
                            FALSE, FALSE, "none")
         ELSE IF Elapsed(tr.awaiter)
         THEN IF has_callback /\ callback_raises
              THEN TrackerResult(tr.fault, None, FALSE, TRUE, TRUE, "none")
              ELSE TrackerResult(TRUE, None, TRUE, FALSE, has_callback, "on")
         ELSE TrackerResult(tr.fault, tr.awaiter, TRUE, FALSE, FALSE, "none")
    ELSE TrackerResult(FALSE, None, TRUE, FALSE, FALSE,
                       IF tr.fault THEN "off" ELSE "none")

\* A mutant of IsOnline: an exception of the callback is swallowed and the
\* fault indicator is set all the same.
IsOnlineSwallows(tr, online_raw, wait_interval, has_callback, callback_raises) ==
    IF ~online_raw
    THEN IF tr.fault
         THEN TrackerResult(tr.fault, tr.awaiter, FALSE, FALSE, FALSE, "none")
         ELSE IF tr.awaiter = None
         THEN TrackerResult(tr.fault, SimpleAwaiter(wait_interval), TRUE,
                            FALSE, FALSE, "none")
         ELSE IF Elapsed(tr.awaiter)
         THEN TrackerResult(TRUE, None, FALSE, FALSE, has_callback, "on")
         ELSE TrackerResult(tr.fault, tr.awaiter, TRUE, FALSE, FALSE, "none")
    ELSE TrackerResult(FALSE, None, TRUE, FALSE, FALSE,
                       IF tr.fault THEN "off" ELSE "none")

\* A mutant of IsOnline: a true input writes the fault indicator off
\* whatever it is.
IsOnlineAlwaysClears(tr, online_raw, wait_interval, has_callback, callback_raises) ==
    IF ~online_raw
    THEN IF tr.fault
         THEN TrackerResult(tr.fault, tr.awaiter, FALSE, FALSE, FALSE, "none")
         ELSE IF tr.awaiter = None
         THEN TrackerResult(tr.fault, SimpleAwaiter(wait_interval), TRUE,
                            FALSE, FALSE, "none")
         ELSE IF Elapsed(tr.awaiter)
         THEN IF has_callback /\ callback_raises
              THEN TrackerResult(tr.fault, None, FALSE, TRUE, TRUE, "none")
              ELSE TrackerResult(TRUE, None, FALSE, FALSE, has_callback, "on")
         ELSE TrackerResult(tr.fault, tr.awaiter, TRUE, FALSE, FALSE, "none")
    ELSE TrackerResult(FALSE, None, TRUE, FALSE, FALSE, "off")

\* A mutant of IsOnline: the elapsed deadline is kept when the fault is set.
IsOnlineFaultKeepsDeadline(tr, online_raw, wait_interval, has_callback, callback_raises) ==
    IF ~online_raw
    THEN IF tr.fault
         THEN TrackerResult(tr.fault, tr.awaiter, FALSE, FALSE, FALSE, "none")
         ELSE IF tr.awaiter = None
         THEN TrackerResult(tr.fault, SimpleAwaiter(wait_interval), TRUE,
                            FALSE, FALSE, "none")
         ELSE IF Elapsed(tr.awaiter)
         THEN IF has_callback /\ callback_raises
              THEN TrackerResult(tr.fault, None, FALSE, TRUE, TRUE, "none")
              ELSE TrackerResult(TRUE, tr.awaiter, FALSE, FALSE, has_callback, "on")
         ELSE TrackerResult(tr.fault, tr.awaiter, TRUE, FALSE, FALSE, "none")
    ELSE TrackerResult(FALSE, None, TRUE, FALSE, FALSE,
                       IF tr.fault THEN "off" ELSE "none")

\* A mutant of IsOnline: the fault indicator is set before the callback
\* runs, so a raising callback leaves it set.
IsOnlineFaultFirst(tr, online_raw, wait_interval, has_callback, callback_raises) ==
    IF ~online_raw
    THEN IF tr.fault
         THEN TrackerResult(tr.fault, tr.awaiter, FALSE, FALSE, FALSE, "none")
         ELSE IF tr.awaiter = None
         THEN TrackerResult(tr.fault, SimpleAwaiter(wait_interval), TRUE,
                            FALSE, FALSE, "none")
         ELSE IF Elapsed(tr.awaiter)
         THEN IF has_callback /\ callback_raises
              THEN TrackerResult(TRUE, None, FALSE, TRUE, TRUE, "on")
              ELSE TrackerResult(TRUE, None, FALSE, FALSE, has_callback, "on")
         ELSE TrackerResult(tr.fault, tr.awaiter, TRUE, FALSE, FALSE, "none")
    ELSE TrackerResult(FALSE, None, TRUE, FALSE, FALSE,
                       IF tr.fault THEN "off" ELSE "none")

\* OnlineTracker.is_online(online_raw).  has_callback: the tracker was built
\* with a became_offline_callback; callback_raises: that callback (or the
\* coroutine it returns) raises when it is run.
IsOnline(tr, online_raw, wait_interval, has_callback, callback_raises) ==
    IF ~online_raw
    THEN IF tr.fault
         THEN \* fault is already set: wait for the sensor, do nothing
              TrackerResult(tr.fault, tr.awaiter, FALSE, FALSE, FALSE, "none")
         ELSE IF tr.awaiter = None
         THEN \* a new development: start the wait
              TrackerResult(tr.fault, SimpleAwaiter(wait_interval), TRUE,
                            FALSE, FALSE, "none")
         ELSE IF Elapsed(tr.awaiter)
         THEN \* the awaiter is dropped, then the callback runs, then the
              \* fault indicator is set: a raising callback skips the last
              IF has_callback /\ callback_raises
              THEN TrackerResult(tr.fault, None, FALSE, TRUE, TRUE, "none")
              ELSE TrackerResult(TRUE, None, FALSE, FALSE, has_callback, "on")
         ELSE \* still giving it a chance
              TrackerResult(tr.fault, tr.awaiter, TRUE, FALSE, FALSE, "none")
    ELSE \* definitely online
         TrackerResult(FALSE, None, TRUE, FALSE, FALSE,
                       IF tr.fault THEN "off" ELSE "none")

(***************************************************************************)
(* The stand-alone tracker: any sequence of is_online calls, with time     *)
(* passing between them.                                                   *)
(***************************************************************************)
Bump(n) == Min(n + 1, CountCap)

\* No run of false inputs is in progress.
NoEpisode ==
    [span |-> None, call_span |-> None, falses |-> 0, calls |-> 0,
     sets |-> 0, raised |-> FALSE, ended_span |-> None, ended_falses |-> 0]

\* No call of is_online has been made yet.
NoCall ==
    [made |-> FALSE, raw |-> TRUE, ret |-> TRUE, raised |-> FALSE,
     pre_fault |-> FALSE, pre_awaiter |-> None,
     called |-> FALSE, cb_raises |-> FALSE, wrote |-> "none"]

\* The bookkeeping after a call with input raw and outcome r.  span is the
\* time since the first false input of the current run of false inputs.
EpisodeAfter(ep, raw, r) ==
    IF raw
    THEN [NoEpisode EXCEPT !.ended_span = ep.span, !.ended_falses = ep.falses]
    ELSE LET span == IF ep.span = None THEN 0 ELSE ep.span IN
         [span |-> span, call_span |-> span,
          falses |-> Bump(ep.falses),
          calls |-> IF r.called THEN Bump(ep.calls) ELSE ep.calls,
          sets |-> IF r.wrote = "on" THEN Bump(ep.sets) ELSE ep.sets,
          raised |-> ep.raised \/ r.raised,
          ended_span |-> None, ended_falses |-> 0]

\* One call of is_online on the stand-alone tracker.
TrackerCall(online_raw, callback_raises) ==
    LET r == IsOnline(tracker, online_raw, WaitInterval, tr_cb, callback_raises) IN
    /\ tracker' = [fault |-> r.fault, awaiter |-> r.awaiter]
    /\ tr_last' = [made |-> TRUE, raw |-> online_raw, ret |-> r.ret,
                   raised |-> r.raised, pre_fault |-> tracker.fault,
                   pre_awaiter |-> tracker.awaiter,
                   called |-> r.called,
                   cb_raises |-> r.called /\ callback_raises,
                   wrote |-> r.wrote]
    /\ tr_ep' = EpisodeAfter(tr_ep, online_raw, r)
    /\ UNCHANGED <<tr_cb, retry, retry_ep, regVars, zoneVars, hubVars>>

\* One second passes.
TrackerAdvance ==
    /\ tracker' = [tracker EXCEPT !.awaiter = AdvanceDeadline(@, 1)]
    /\ tr_ep' = [tr_ep EXCEPT
                   !.span = IF @ = None THEN None ELSE Min(@ + 1, WaitInterval + 1)]
    /\ UNCHANGED <<tr_cb, tr_last, retry, retry_ep, regVars, zoneVars, hubVars>>

TrackerNext ==
    \/ \E online_raw \in BOOLEAN, callback_raises \in BOOLEAN :
          TrackerCall(online_raw, callback_raises)
    \/ TrackerAdvance

(***************************************************************************)
(* retry_tracker.RetryTracker                                              *)
(***************************************************************************)
\* The defaults of RetryTracker.__init__.
StartDelay == 1

IncreaseFactor == 2

MaxDelay == 16

\* The set_fault calls of a run are counted up to here ("this many or
\* more").
MaxFaults == 7

\* RetryTracker.__init__: no delay and no awaiter.
RetryTrackerInit == [cur_delay |-> 0, awaiter |-> None]

\* A mutant of SetFault: the delay is not capped.
SetFaultUncapped(r) ==
    LET delay == IF r.awaiter # None THEN r.cur_delay * IncreaseFactor
                 ELSE StartDelay
    IN  [cur_delay |-> delay, awaiter |-> SimpleAwaiter(delay)]

\* RetryTracker.set_fault().
SetFault(r) ==
    LET delay == IF r.awaiter # None
                 THEN Min(r.cur_delay * IncreaseFactor, MaxDelay)
                 ELSE StartDelay
    IN  [cur_delay |-> delay, awaiter |-> SimpleAwaiter(delay)]

\* RetryTracker.reset_fault().
ResetFault(r) == [r EXCEPT !.awaiter = None, !.cur_delay = 0]

\* RetryTracker.should_try.
ShouldTry(r) == r.awaiter = None \/ Elapsed(r.awaiter)

\* No set_fault call has been made since the construction or the last
\* reset_fault: faults counts the calls, since is the time since the last
\* of them, op the last operation.
NoFaults == [faults |-> 0, since |-> None, op |-> "new"]

\* Any sequence of set_fault and reset_fault calls on the stand-alone
\* RetryTracker, with a second passing between them.
RetryNext ==
    \/ /\ retry' = SetFault(retry)
       /\ retry_ep' = [faults |-> Min(retry_ep.faults + 1, MaxFaults),
                       since |-> 0, op |-> "set_fault"]
       /\ UNCHANGED <<tracker, tr_cb, tr_last, tr_ep, regVars, zoneVars,
                      hubVars>>
    \/ /\ retry' = ResetFault(retry)
       /\ retry_ep' = [NoFaults EXCEPT !.op = "reset_fault"]
       /\ UNCHANGED <<tracker, tr_cb, tr_last, tr_ep, regVars, zoneVars,
                      hubVars>>
    \/ /\ retry' = [retry EXCEPT !.awaiter = AdvanceDeadline(@, 1)]
       /\ retry_ep' = [retry_ep EXCEPT
                         !.since = IF @ = None THEN None ELSE Min(@ + 1, MaxDelay),
                         !.op = "second"]
       /\ UNCHANGED <<tracker, tr_cb, tr_last, tr_ep, regVars, zoneVars,
                      hubVars>>


(***************************************************************************)
(* regulator.PidRegulator and regulator.HysteresisRegulator                *)
(***************************************************************************)
\* The window of the PID average (average_samples; the Zone builds its
\* PidRegulator with the default, 20).
AverageSamples == 2

\* PID(..., output_limits=(-1, 1)): 1 in units of 0.05.
OutputLimit == 20

\* HysteresisRegulator's "on" output, 0.05, in units of 0.05.
HystOn == 1

\* ZoneClimate._attr_target_temperature.
DefaultTarget == 22

\* The values one PID sample (self._pid(cur_temp)) can take: the library
\* clamps P + I to the output limits; which value it is depends on kp, ki, the
\* error history and the timing, so every call may give any of them.
PidSamples == {-OutputLimit, 0, OutputLimit}

Temperatures == 20 .. 24

\* The same for a call on regulator r with temperature cur_temp.  With no
\* sample in the history the PID object is fresh (initialize builds it, and
\* enabling resets it): its terms Kp * error and Ki * error * dt have the
\* sign of the error, target - cur_temp, the coefficients being at least 0.
PidSamplesAt(r, cur_temp) ==
    IF r.samples # <<>> \/ r.target = None THEN PidSamples
    ELSE IF cur_temp > r.target THEN {-OutputLimit, 0}
    ELSE IF cur_temp < r.target THEN {0, OutputLimit}
    ELSE {0}

Targets == {DefaultTarget - 1, DefaultTarget}

RECURSIVE SumSeq(_)
SumSeq(s) == IF s = <<>> THEN 0 ELSE Head(s) + SumSeq(Tail(s))

\* An output value num/den (den > 0), in units of 0.05.
Zero == <<0, 1>>

Positive(o) == o[1] > 0

\* max(a, b) of two output values, as Python's max: a unless b is greater.
MaxOutput(a, b) == IF b[1] * a[2] > a[1] * b[2] THEN b ELSE a

\* __init__ of either regulator.  A PidRegulator has no PID object (and so no
\* enabled flag, setpoint or sample) before initialize; HysteresisRegulator
\* has no _target before initialize.
RegulatorNew(kind) ==
    [kind |-> kind, initialised |-> FALSE, enabled |-> TRUE, samples |-> <<>>,
     output |-> 0, target |-> None]

\* initialize(target_temperature).  PID: a new PID object, auto_mode True;
\* the sample history is not touched.
Initialize(r, target_temperature) ==
    IF r.kind = "PID"
    THEN [r EXCEPT !.initialised = TRUE, !.enabled = TRUE,
                   !.target = target_temperature]
    ELSE [r EXCEPT !.initialised = TRUE, !.target = target_temperature]

\* The enabled setter.  (On a PidRegulator that was not initialised the
\* setter raises and changes nothing.)
SetEnabled(r, value) ==
    IF r.kind = "PID"
    THEN IF ~r.initialised \/ r.enabled = value THEN r
         ELSE IF value THEN [r EXCEPT !.enabled = TRUE]
         ELSE [r EXCEPT !.enabled = FALSE, !.samples = <<>>]
    ELSE [r EXCEPT !.enabled = value]

\* The target_temperature setter.
SetTarget(r, value) ==
    IF r.kind = "PID" /\ ~r.initialised THEN r ELSE [r EXCEPT !.target = value]

\* A mutant of CalculateOutput: a full history drops the new sample.
CalculateOutputDropsNewest(r, cur_temp, sample) ==
    IF ~r.initialised \/ ~r.enabled THEN r
    ELSE IF r.kind = "PID"
    THEN LET appended == Append(r.samples, sample) IN
         [r EXCEPT !.samples = IF Len(appended) > AverageSamples
                                THEN r.samples ELSE appended]
    ELSE IF cur_temp <= r.target - 1 THEN [r EXCEPT !.output = HystOn]
    ELSE IF cur_temp >= r.target + 1 THEN [r EXCEPT !.output = 0]
    ELSE r

\* A mutant of CalculateOutput: the HysteresisRegulator switches at the
\* target, without a band.
CalculateOutputNoBand(r, cur_temp, sample) ==
    IF ~r.initialised \/ ~r.enabled THEN r
    ELSE IF r.kind = "PID"
    THEN LET appended == Append(r.samples, sample) IN
         [r EXCEPT !.samples = IF Len(appended) > AverageSamples
                                THEN Tail(appended) ELSE appended]
    ELSE IF cur_temp <= r.target THEN [r EXCEPT !.output = HystOn]
    ELSE [r EXCEPT !.output = 0]

\* calculate_output(cur_temp); sample is the value the PID object returns.
\* (Before initialize the call raises and changes nothing.)
CalculateOutput(r, cur_temp, sample) ==
    IF ~r.initialised \/ ~r.enabled THEN r
    ELSE IF r.kind = "PID"
    THEN LET appended == Append(r.samples, sample) IN
         [r EXCEPT !.samples = IF Len(appended) > AverageSamples
                                THEN Tail(appended) ELSE appended]
    ELSE IF cur_temp <= r.target - 1 THEN [r EXCEPT !.output = HystOn]
    ELSE IF cur_temp >= r.target + 1 THEN [r EXCEPT !.output = 0]
    ELSE r

\* The output getter.
Output(r) ==
    IF r.kind = "PID"
    THEN IF ~r.enabled \/ Len(r.samples) = 0 THEN Zero
         ELSE <<SumSeq(r.samples), Len(r.samples)>>
    ELSE <<r.output, 1>>

(***************************************************************************)
(* The stand-alone regulator: any sequence of its operations.              *)
(***************************************************************************)

\* No operation has been applied to the stand-alone regulator.  reg_last
\* keeps the last operation (op), the temperature it was given (cur_temp),
\* the output and the target before it (was, target_was), and the samples
\* computed since the regulator was last enabled (log), of which the last
\* AverageSamples + 1 are kept.
NoRegOp ==
    [op |-> "new", cur_temp |-> None, was |-> Zero, target_was |-> None,
     log |-> <<>>]

\* The last n elements of s.
LastOf(s, n) == IF Len(s) <= n THEN s ELSE SubSeq(s, Len(s) - n + 1, Len(s))

\* The record of operation op, which took the regulator from reg to after.
RegRecord(op, cur_temp, sample, after) ==
    [op |-> op, cur_temp |-> cur_temp, was |-> Output(reg),
     target_was |-> reg.target,
     log |-> IF after.kind # "PID" \/ ~after.enabled THEN <<>>
             ELSE IF op = "calculate" /\ reg.enabled
             THEN LastOf(Append(reg_last.log, sample), AverageSamples + 1)
             ELSE reg_last.log]

RegInitialize(target_temperature) ==
    /\ reg' = Initialize(reg, target_temperature)
    /\ reg_last' = RegRecord("initialize", None, 0, reg')
    /\ UNCHANGED <<trackerVars, zoneVars, hubVars>>

RegSetEnabled(value) ==
    /\ reg' = SetEnabled(reg, value)
    /\ reg_last' = RegRecord("enabled", None, 0, reg')
    /\ UNCHANGED <<trackerVars, zoneVars, hubVars>>

RegSetTarget(value) ==
    /\ reg.initialised
    /\ reg' = SetTarget(reg, value)
    /\ reg_last' = RegRecord("target", None, 0, reg')
    /\ UNCHANGED <<trackerVars, zoneVars, hubVars>>

RegCalculateOutput(cur_temp, sample) ==
    /\ reg.initialised
    /\ reg' = CalculateOutput(reg, cur_temp, sample)
    /\ reg_last' = RegRecord("calculate", cur_temp, sample, reg')
    /\ UNCHANGED <<trackerVars, zoneVars, hubVars>>

RegulatorNext ==
    \/ \E t \in Targets : RegInitialize(t)
    \/ \E v \in BOOLEAN : RegSetEnabled(v)
    \/ \E t \in Targets : RegSetTarget(t)
    \/ \E cur_temp \in Temperatures :
          \E sample \in PidSamplesAt(reg, cur_temp) :
              RegCalculateOutput(cur_temp, sample)

(***************************************************************************)
(* utils.str_to_bool / get_state_bool and window.ZoneWindow                *)
(***************************************************************************)
\* timedelta(minutes=5), in seconds.
WarmupTime == 300

\* The states a binary sensor of the host can be in.
SensorStates == {"on", "off", "unavailable"}

\* str_to_bool: True, False or None, as "true", "false", "none".
StrToBool(value) ==
    IF value \in {"y", "yes", "true", "on"} THEN "true"
    ELSE IF value \in {"n", "no", "false", "off"} THEN "false"
    ELSE "none"

\* ZoneWindow.window_open for a zone with one window sensor:
\* get_state_bool(sensor) or False.
WindowOpen(sensor_state) == StrToBool(sensor_state) = "true"

ZoneWindowInit == [last_open |-> FALSE, warmup_time |-> None]

\* A mutant of WindowAfter: an observed opening leaves the pending deadline
\* in place, and an observed closing starts a deadline only when none is
\* pending.
WindowAfterKeepsDeadline(w, window_open) ==
    IF w.last_open = window_open
    THEN IF ~window_open /\ w.warmup_time # None /\ Elapsed(w.warmup_time)
         THEN [w EXCEPT !.warmup_time = None]
         ELSE w
    ELSE [last_open |-> window_open,
          warmup_time |-> IF window_open \/ w.warmup_time # None
                          THEN w.warmup_time
                          ELSE SimpleAwaiter(WarmupTime)]

\* A mutant of WindowAfter: a change of the window state is not stored in
\* _last_open.
WindowAfterForgetsChange(w, window_open) ==
    IF w.last_open = window_open
    THEN IF ~window_open /\ w.warmup_time # None /\ Elapsed(w.warmup_time)
         THEN [w EXCEPT !.warmup_time = None]
         ELSE w
    ELSE [last_open |-> w.last_open,
          warmup_time |-> IF window_open THEN None ELSE SimpleAwaiter(WarmupTime)]

\* The assignments of ZoneWindow.should_heat() to _last_open and
\* _warmup_time.
WindowAfter(w, window_open) ==
    IF w.last_open = window_open
    THEN IF ~window_open /\ w.warmup_time # None /\ Elapsed(w.warmup_time)
         THEN [w EXCEPT !.warmup_time = None]
         ELSE w
    ELSE [last_open |-> window_open,
          warmup_time |-> IF window_open THEN None ELSE SimpleAwaiter(WarmupTime)]

\* What should_heat() leaves and returns, given the fields after its
\* assignments; wrote: whether the window indicator was written.
ShouldHeatResult(w, after, window_open) ==
    [window |-> after,
     ret |-> ~window_open /\ after.warmup_time = None,
     wrote |-> w.last_open # window_open]

\* ZoneWindow.should_heat().
ShouldHeat(w, window_open) ==
    ShouldHeatResult(w, WindowAfter(w, window_open), window_open)

(***************************************************************************)
(* zone.Zone                                                               *)
(***************************************************************************)
\* timedelta(seconds=5): the wait interval of a zone's sensor tracker.
SensorWait == 5

\* The places of a control step where the host can raise: reading the
\* sensor or feeding the sensor tracker, the enabled-flag recomputation, the
\* regulator computation, publishing the output, commanding a valve.
FailPoints == {"sensor", "enable", "compute", "display", "valve"}

\* The presets of a climate entity (of the three the entity offers).
PresetModes == {"home", "away"}

\* A preset that ZoneClimate._presets does not hold.  A stored preset holds
\* a temperature, a mode, or both (the PID coefficients are left out).
NoPreset == [stored |-> FALSE, temperature |-> None, mode |-> "none"]

\* Zone.__init__ followed by Zone.initialize(): the regulator is initialised
\* with the climate entity's target temperature.  hvac_mode, target,
\* preset_mode and presets are the fields of the zone's climate entity.
ZoneInit(cfg) ==
    [hvac_mode |-> "heat",
     target |-> DefaultTarget,
     preset_mode |-> "home",
     presets |-> [p \in PresetModes |-> NoPreset],
     sensor |-> OnlineTrackerInit,
     control_fault |-> FALSE,
     window |-> ZoneWindowInit,
     regulator |-> Initialize(RegulatorNew(cfg.regulator_type), DefaultTarget),
     regulator_active |-> FALSE,
     output_display |-> Zero,
     trv_command |-> "none",
     trv_open |-> FALSE]

\* Zone.regulator_output.
RegulatorOutput(z) == Output(z.regulator)

\* Zone.operate_trvs(output): every valve is commanded, then the valve-open
\* indicator is set.
OperateTrvs(z, cfg, output) ==
    IF cfg.has_trvs
    THEN [z EXCEPT !.trv_command = IF Positive(output) THEN "heat" ELSE "off",
                   !.trv_open = Positive(output)]
    ELSE z

\* The last two statements of _recalculate_regulator_enabled().
SetRegulatorEnabled(z, result) ==
    [z EXCEPT !.regulator = SetEnabled(@, result), !.regulator_active = result]

\* The third enabler, window.should_heat, with sh what the call leaves and
\* returns.
PollWindow(z, sh) == SetRegulatorEnabled([z EXCEPT !.window = sh.window], sh.ret)

\* A mutant of RecalculateRegulatorEnabled: the sensor fault is not among
\* the enablers.
RecalculateIgnoresSensorFault(z, cfg, window_open) ==
    IF z.hvac_mode = "heat"
    THEN IF cfg.has_window
         THEN PollWindow(z, ShouldHeat(z.window, window_open))
         ELSE SetRegulatorEnabled(z, TRUE)
    ELSE SetRegulatorEnabled(z, FALSE)

\* Zone._recalculate_regulator_enabled(): "result = result and enabler()"
\* over [_climate_enabled, _no_sensor_fault, window.should_heat]: an enabler
\* is called only while result is still true, so should_heat is not polled
\* when the HVAC mode is off or the sensor fault is set.
RecalculateRegulatorEnabled(z, cfg, window_open) ==
    IF z.hvac_mode = "heat" /\ ~z.sensor.fault
    THEN IF cfg.has_window
         THEN PollWindow(z, ShouldHeat(z.window, window_open))
         ELSE SetRegulatorEnabled(z, TRUE)
    ELSE SetRegulatorEnabled(z, FALSE)

\* The outcome of the try block of control_temperature: the zone's state,
\* whether an exception was raised, whether the block returned early, and
\* the write it made to the control fault indicator ("clear" or "none"),
\* the reading it wrote to the climate entity's current temperature
\* (temp_write, None when it wrote none), and the command it gave to the
\* valves (valve_write: "heat", "off", "failed" when the command raised, or
\* "none").
BodyResult(z, raised, early) ==
    [zone |-> z, raised |-> raised, early |-> early, fault_write |-> "none",
     temp_write |-> None, valve_write |-> "none"]

\* A mutant of Recovered: the control fault is left as it is.
RecoveredKeepsFault(z) == BodyResult(z, FALSE, FALSE)

\* The end of the try block: the recovery from a previous fault.
Recovered(z) ==
    IF z.control_fault
    THEN [BodyResult([z EXCEPT !.control_fault = FALSE], FALSE, FALSE)
             EXCEPT !.fault_write = "clear"]
    ELSE BodyResult(z, FALSE, FALSE)

\* "await self.operate_trvs(output)" and the end of the try block.
OperateAndRecover(z, cfg, fail) ==
    IF fail = "valve"
    THEN [BodyResult(z, TRUE, FALSE) EXCEPT !.valve_write = "failed"]
    ELSE [Recovered(OperateTrvs(z, cfg, Output(z.regulator)))
             EXCEPT !.valve_write = IF Positive(Output(z.regulator))
                                    THEN "heat" ELSE "off"]

\* The valves of a zone with a window: sh is what the second should_heat()
\* call of the step leaves and returns.
OperateIfWindowAllows(z, sh, cfg, fail) ==
    IF sh.ret
    THEN OperateAndRecover([z EXCEPT !.window = sh.window], cfg, fail)
    ELSE Recovered([z EXCEPT !.window = sh.window])

\* A mutant of ControlTrvs: the valves are operated whether or not the
\* regulator is enabled.
ControlTrvsWhenDisabled(z, cfg, window_open, fail) ==
    IF cfg.has_trvs
    THEN IF cfg.has_window /\ z.regulator.enabled
         THEN OperateIfWindowAllows(z, ShouldHeat(z.window, window_open), cfg, fail)
         ELSE OperateAndRecover(z, cfg, fail)
    ELSE Recovered(z)

\* "Operate TRVs" and what follows it in the try block.
ControlTrvs(z, cfg, window_open, fail) ==
    IF cfg.has_trvs /\ z.regulator.enabled
    THEN IF cfg.has_window
         THEN OperateIfWindowAllows(z, ShouldHeat(z.window, window_open), cfg, fail)
         ELSE OperateAndRecover(z, cfg, fail)
    ELSE Recovered(z)

\* The try block from "output = self._regulator.output" on.
PublishOutput(z, cfg, window_open, fail) ==
    IF fail = "display" THEN BodyResult(z, TRUE, FALSE)
    ELSE ControlTrvs([z EXCEPT !.output_display = Output(z.regulator)],
                     cfg, window_open, fail)

\* A mutant of RunRegulator: the output is published before the early
\* return.
RunRegulatorPublishesEarly(z, cfg, cur_temp, window_open, sample, fail) ==
    IF z.regulator.enabled
    THEN IF cur_temp = None
         THEN BodyResult([z EXCEPT !.output_display = Output(z.regulator)],
                         FALSE, TRUE)
         ELSE IF fail = "compute"
         THEN [BodyResult(z, TRUE, FALSE) EXCEPT !.temp_write = cur_temp]
         ELSE [PublishOutput(
                   [z EXCEPT !.regulator = CalculateOutput(@, cur_temp, sample)],
                   cfg, window_open, fail) EXCEPT !.temp_write = cur_temp]
    ELSE PublishOutput(z, cfg, window_open, fail)

\* The try block from "if self._regulator.enabled" on.
RunRegulator(z, cfg, cur_temp, window_open, sample, fail) ==
    IF z.regulator.enabled
    THEN IF cur_temp = None
         THEN \* the sensor is given a chance to recover: return
              BodyResult(z, FALSE, TRUE)
         ELSE \* set_current_temperature(cur_temp), then calculate_output
              IF fail = "compute"
         THEN [BodyResult(z, TRUE, FALSE) EXCEPT !.temp_write = cur_temp]
         ELSE [PublishOutput(
                   [z EXCEPT !.regulator = CalculateOutput(@, cur_temp, sample)],
                   cfg, window_open, fail) EXCEPT !.temp_write = cur_temp]
    ELSE PublishOutput(z, cfg, window_open, fail)

\* The try block from "self._recalculate_regulator_enabled()" on.
RecalculateAndRun(z, cfg, cur_temp, window_open, sample, fail) ==
    IF fail = "enable" THEN BodyResult(z, TRUE, FALSE)
    ELSE RunRegulator(RecalculateRegulatorEnabled(z, cfg, window_open),
                      cfg, cur_temp, window_open, sample, fail)

\* The zone after its sensor tracker's is_online call, t being what the call
\* leaves and returns.
TrackSensor(z, t) == [z EXCEPT !.sensor = [fault |-> t.fault, awaiter |-> t.awaiter]]

\* The try block of Zone.control_temperature.  cur_temp is the reading (None
\* when unavailable), sample the value the PID object would return, fail the
\* place where the host raises (or "none").
ControlTemperatureBody(z, cfg, cur_temp, window_open, sample, fail) ==
    IF fail = "sensor" THEN BodyResult(z, TRUE, FALSE)
    ELSE RecalculateAndRun(
             TrackSensor(z, IsOnline(z.sensor, cur_temp # None, SensorWait,
                                     FALSE, FALSE)),
             cfg, cur_temp, window_open, sample, fail)

\* The outcome of control_temperature: the zone's state, whether the body
\* raised or returned early, and whether an exception left the method.
StepResult(z, raised, early, propagated, fault_write) ==
    [zone |-> z, raised |-> raised, early |-> early, propagated |-> propagated,
     fault_write |-> fault_write]

\* A mutant of ExceptHandler: the indicator is written at every exception.
ExceptHandlerAlwaysWrites(b) ==
    IF b.raised
    THEN StepResult([b.zone EXCEPT !.control_fault = TRUE],
                    TRUE, FALSE, FALSE, "set")
    ELSE StepResult(b.zone, FALSE, b.early, FALSE, b.fault_write)

\* The "except Exception" handler of control_temperature, after the try
\* block ended as b: it sets the control fault indicator if it is not set.
ExceptHandler(b) ==
    IF b.raised
    THEN IF b.zone.control_fault
         THEN StepResult(b.zone, TRUE, FALSE, FALSE, "none")
         ELSE StepResult([b.zone EXCEPT !.control_fault = TRUE],
                         TRUE, FALSE, FALSE, "set")
    ELSE StepResult(b.zone, FALSE, b.early, FALSE, b.fault_write)

\* A handler that does not cover the valve commands.
HandlerValvesUnguarded(b, fail) ==
    IF b.raised /\ fail = "valve"
    THEN StepResult(b.zone, TRUE, FALSE, TRUE, "none")
    ELSE ExceptHandler(b)

\* A mutant of ControlTemperature: the valve commands are outside the try
\* block.
ControlTemperatureValvesUnguarded(z, cfg, cur_temp, window_open, sample, fail) ==
    HandlerValvesUnguarded(
        ControlTemperatureBody(z, cfg, cur_temp, window_open, sample, fail), fail)

\* Zone.control_temperature(): the try block and its handler.
ControlTemperature(z, cfg, cur_temp, window_open, sample, fail) ==
    ExceptHandler(ControlTemperatureBody(z, cfg, cur_temp, window_open, sample, fail))

\* ZoneClimate._set_preset_item(key, value): the item is stored under the
\* current preset, which is created when it is not there.
SetPresetItem(z, key, value) ==
    [z EXCEPT !.presets[z.preset_mode] =
                  [[@ EXCEPT !.stored = TRUE] EXCEPT ![key] = value]]

\* ZoneClimate.async_set_hvac_mode(hvac_mode).
SetHvacMode(z, hvac_mode) ==
    SetPresetItem([z EXCEPT !.hvac_mode = hvac_mode], "mode", hvac_mode)

\* ZoneClimate.async_set_temperature(temperature=value), which ends in
\* Zone.handle_target_temperature_changed.
AsyncSetTemperature(z, value) ==
    [SetPresetItem([z EXCEPT !.target = value], "temperature", value)
        EXCEPT !.regulator = SetTarget(@, value)]

\* What a setter of the zone's climate entity leaves, and whether it raised.
SetterResult(z, raised) == [zone |-> z, raised |-> raised]

\* ZoneClimate._apply_preset(preset): the stored temperature and mode are
\* taken over, then Zone.handle_preset_changed calls self._regulator.reset(),
\* a method that no regulator class defines: the call raises AttributeError.
ApplyPreset(z, preset) ==
    SetterResult([z EXCEPT
                    !.target = IF preset.temperature # None
                               THEN preset.temperature ELSE @,
                    !.hvac_mode = IF preset.mode # "none"
                                  THEN preset.mode ELSE @],
                 TRUE)

\* ZoneClimate.async_set_preset_mode(preset_mode).
AsyncSetPresetMode(z, preset_mode) ==
    IF z.presets[preset_mode].stored
    THEN ApplyPreset([z EXCEPT !.preset_mode = preset_mode],
                     z.presets[preset_mode])
    ELSE SetterResult([z EXCEPT !.preset_mode = preset_mode], FALSE)

\* The passing of dt seconds, seen from a zone's deadlines.
AdvanceZone(z, dt) ==
    [z EXCEPT !.sensor.awaiter = AdvanceDeadline(@, dt),
              !.window.warmup_time = AdvanceDeadline(@, dt)]

(***************************************************************************)
(* Zones driven one control step at a time                                 *)
(***************************************************************************)
Zones == {1, 2}

\* The zone that SpecZone drives.
TheZone == 1

ZoneConfigs ==
    [regulator_type : {"PID", "Hysteresis"}, has_window : BOOLEAN,
     has_trvs : BOOLEAN]

\* The readings of a temperature sensor: at the lower and at the upper edge
\* of the hysteresis band around the default target, or unavailable.
Readings == {None, DefaultTarget - 1, DefaultTarget + 1}

\* The values a PID sample can take in a zone (none is drawn for a
\* HysteresisRegulator).
SamplesOf(cfg) ==
    IF cfg.regulator_type = "PID" THEN {-OutputLimit, OutputLimit} ELSE {0}

\* The same, for one control step: no sample is drawn in a step that does
\* not reach calculate_output.
SamplesFor(cfg, cur_temp, fail) ==
    IF cur_temp = None \/ fail \in {"sensor", "enable", "compute"}
    THEN {0}
    ELSE SamplesOf(cfg)

\* The steps by which the clock is seen to advance.  A deadline is only ever
\* asked whether it has elapsed, so one step as long as the longest wait
\* separates "not elapsed" from "elapsed" for every deadline of a zone.
ClockSteps == {WarmupTime}

NoStep ==
    [ran |-> FALSE, fail |-> "none", raised |-> FALSE, early |-> FALSE,
     propagated |-> FALSE, window_open |-> FALSE, closed_long |-> TRUE,
     may_heat |-> FALSE, fault_set |-> FALSE, tick |-> FALSE]

IdleConfig == [regulator_type |-> "PID", has_window |-> FALSE, has_trvs |-> FALSE]

\* Zone configurations in which only TheZone varies, over the set configs.
OnlyTheZone(configs) ==
    {[z \in Zones |-> IF z = TheZone THEN c ELSE IdleConfig] : c \in configs}

\* Whether a zone may heat, as a step finds it: the HVAC mode is heat, the
\* sensor fault is off once the sensor tracker has been fed, and the window
\* (if any) is closed with no warm-up pending.
MayHeat(before, after, cfg, window_open) ==
    /\ before.hvac_mode = "heat"
    /\ ~after.sensor.fault
    /\ cfg.has_window => ~window_open /\ after.window.warmup_time = None

\* One call of control_temperature on zone z.  zone_last records what the
\* step did and what the window was when it ran, whether the zone might
\* heat (may_heat), and whether the step set the sensor fault (fault_set);
\* tick is the mark the step leaves.
ZoneStepSeen(z, cur_temp, sample, fail, tick) ==
    LET window_open == WindowOpen(window_state[z]) IN
    \E r \in {ControlTemperature(zones[z], zone_cfg[z], cur_temp, window_open,
                                sample, fail)} :
        /\ zones' = [zones EXCEPT ![z] = r.zone]
        /\ zone_last' = [zone_last EXCEPT ![z] =
              [ran |-> TRUE, fail |-> IF r.raised THEN fail ELSE "none",
               raised |-> r.raised, early |-> r.early,
               propagated |-> r.propagated,
               window_open |-> window_open,
               closed_long |-> since_open[z] >= WarmupTime,
               may_heat |-> MayHeat(zones[z], r.zone, zone_cfg[z], window_open),
               fault_set |-> r.zone.sensor.fault /\ ~zones[z].sensor.fault,
               tick |-> tick]]
        /\ UNCHANGED <<zone_cfg, window_state, since_open,
                       trackerVars, regVars, hubVars>>

\* A control step of zone z, called from outside the 1-second tick.
ZoneStep(z, cur_temp, sample, fail) ==
    ZoneStepSeen(z, cur_temp, sample, fail, zone_last[z].tick)

\* A control step of zone z as the 1-second tick makes it: the mark is
\* turned over, so that a step that leaves the zone as it was is still a
\* step.
ZoneTick(z, cur_temp, sample, fail) ==
    ZoneStepSeen(z, cur_temp, sample, fail, ~zone_last[z].tick)

\* The user sets the HVAC mode of zone z.
ZoneSetHvacMode(z, hvac_mode) ==
    /\ zones[z].hvac_mode # hvac_mode
    /\ zones' = [zones EXCEPT ![z] = SetHvacMode(@, hvac_mode)]
    /\ UNCHANGED <<zone_cfg, window_state, since_open, zone_last,
                   trackerVars, regVars, hubVars>>

\* The window sensor of zone z changes state, having been in its state for
\* at least one control step (steps are a second apart).  since_open[z] is
\* the time for which the window has been closed, 0 while it is open.
WindowSensorChange(z, state) ==
    /\ zone_cfg[z].has_window
    /\ window_state[z] # state
    /\ zone_last[z].ran
    /\ zone_last[z].window_open = WindowOpen(window_state[z])
    /\ window_state' = [window_state EXCEPT ![z] = state]
    /\ since_open' = [since_open EXCEPT ![z] = IF WindowOpen(state) THEN 0 ELSE @]
    /\ UNCHANGED <<zone_cfg, zones, zone_last,
                   trackerVars, regVars, hubVars>>

\* dt seconds pass.  Control steps are a second apart, so time passes only
\* once a step has run in the present state of the window.
ZoneAdvance(dt) ==
    /\ \A z \in Zones : zone_last[z].window_open = WindowOpen(window_state[z])
    /\ zones' = [z \in Zones |-> AdvanceZone(zones[z], dt)]
    /\ since_open' = [z \in Zones |->
          IF WindowOpen(window_state[z]) THEN 0
          ELSE Min(WarmupTime, since_open[z] + dt)]
    /\ UNCHANGED <<zone_cfg, window_state, zone_last, trackerVars, regVars, hubVars>>

ZoneNext ==
    \/ \E cur_temp \in Readings, fail \in FailPoints \cup {"none"} :
          \E sample \in SamplesFor(zone_cfg[TheZone], cur_temp, fail) :
              ZoneStep(TheZone, cur_temp, sample, fail)
    \/ \E m \in {"heat", "off"} : ZoneSetHvacMode(TheZone, m)
    \/ \E st \in {"on", "off"} : WindowSensorChange(TheZone, st)
    \/ \E dt \in ClockSteps : ZoneAdvance(dt)

\* The steps of TheZone made by the tick, second after second.
TickOfTheZone ==
    \E cur_temp \in Readings, fail \in {"none", "sensor", "valve"} :
        \E sample \in SamplesFor(zone_cfg[TheZone], cur_temp, fail) :
            ZoneTick(TheZone, cur_temp, sample, fail)

TimePasses == \E dt \in ClockSteps : ZoneAdvance(dt)

LiveNext ==
    \/ TickOfTheZone
    \/ \E m \in {"heat", "off"} : ZoneSetHvacMode(TheZone, m)
    \/ \E st \in {"on", "off"} : WindowSensorChange(TheZone, st)
    \/ TimePasses

\* The number of clock steps that make up the warm-up time.
PollsPerWarmup == 10

\* should_heat() is called on the ZoneWindow of zone z and observes the
\* window open or closed.  since_open[z] becomes the time since the window
\* was observed to close, 0 while it is observed open; zone_last[z] keeps
\* the observation (window_open), the value returned (may_heat) and whether
\* the warm-up time has passed since the observed closing (closed_long).
WindowPoll(z, window_open) ==
    \E sh \in {ShouldHeat(zones[z].window, window_open)} :
    \E since \in {IF window_open \/ zone_last[z].window_open
                  THEN 0 ELSE since_open[z]} :
        /\ zones' = [zones EXCEPT ![z].window = sh.window]
        /\ since_open' = [since_open EXCEPT ![z] = since]
        /\ zone_last' = [zone_last EXCEPT ![z] =
              [NoStep EXCEPT !.ran = TRUE, !.window_open = window_open,
                             !.may_heat = sh.ret,
                             !.closed_long = since >= WarmupTime]]
        /\ UNCHANGED <<zone_cfg, window_state, trackerVars, regVars, hubVars>>

\* A part of the warm-up time passes between two calls of should_heat().
PollAdvance ==
    /\ zones' = [z \in Zones |->
                    AdvanceZone(zones[z], WarmupTime \div PollsPerWarmup)]
    /\ since_open' = [z \in Zones |->
          IF zone_last[z].window_open THEN 0
          ELSE Min(WarmupTime, since_open[z] + WarmupTime \div PollsPerWarmup)]
    /\ UNCHANGED <<zone_cfg, window_state, zone_last, trackerVars, regVars,
                   hubVars>>

PollNext ==
    \/ \E z \in Zones, window_open \in BOOLEAN : WindowPoll(z, window_open)
    \/ PollAdvance

\* SpecWindow: TheZone has a window sensor, and the host raises nowhere.

WindowNext ==
    \/ \E cur_temp \in Readings :
          \E sample \in SamplesFor(zone_cfg[TheZone], cur_temp, "none") :
              ZoneStep(TheZone, cur_temp, sample, "none")
    \/ \E m \in {"heat", "off"} : ZoneSetHvacMode(TheZone, m)
    \/ \E st \in {"on", "off"} : WindowSensorChange(TheZone, st)
    \/ \E dt \in ClockSteps : ZoneAdvance(dt)


(***************************************************************************)
(* circuit.Circuit                                                         *)
(***************************************************************************)
Circuits == {1, 2}

\* Hub.zones and Hub.circuits are dicts, walked in configuration order.
ZoneOrder == <<1, 2>>

CircuitOrder == <<1, 2>>

\* Circuit.zones: the zones each circuit owns.  Every circuit has a switch.
CircuitZones == <<ZoneOrder, <<2>>>>

\* Python's truth value of an optional number: None and 0 are false.
Truthy(x) == x # None /\ x # 0

\* Circuit.__init__: the active indicator, the last switch command, and what
\* the circuit's climate entity displays.
CircuitInit ==
    [active |-> FALSE, switch_command |-> "none",
     cur_temp |-> None, target |-> None, hvac_mode |-> "heat",
     preset_mode |-> "home"]

\* Circuit.set_active(value): every switch is commanded, then the active
\* indicator is set.  switch_fails: the switch command raises.
SetActive(c, value, switch_fails) ==
    IF switch_fails THEN [circuit |-> c, raised |-> TRUE]
    ELSE [circuit |-> [c EXCEPT !.switch_command = IF value THEN "on" ELSE "off",
                                !.active = value],
          raised |-> FALSE]

\* The loop of control_circuit over the owned zones, for cur_temp.
RECURSIVE MinReading(_, _, _)
MinReading(owned, readings, cur_temp) ==
    IF owned = <<>> THEN cur_temp
    ELSE LET t == readings[Head(owned)] IN
         MinReading(Tail(owned), readings,
                    IF Truthy(t)
                    THEN IF Truthy(cur_temp) THEN Min(cur_temp, t) ELSE t
                    ELSE cur_temp)

\* A variant of the common value that displays one of the values when the
\* values differ.
CommonValueOfSome(values, none) ==
    IF values # {} THEN CHOOSE v \in values : TRUE ELSE none

\* "values.pop() if len(values) == 1 else None".
CommonValue(values, none) ==
    IF Cardinality(values) = 1 THEN CHOOSE v \in values : TRUE ELSE none

\* Circuit.control_circuit(): the displayed values are aggregated from the
\* owned zones, then the circuit is set active if some owned zone has a
\* positive regulator output.
ControlCircuit(c, owned, zs, readings, switch_fails) ==
    LET ids == {owned[i] : i \in DOMAIN owned}
        any_output == \E z \in ids : Positive(RegulatorOutput(zs[z]))
        shown == [c EXCEPT
            !.cur_temp = MinReading(owned, readings, None),
            !.target = CommonValue({zs[z].target : z \in
                           {y \in ids : Truthy(zs[y].target)}}, None),
            !.hvac_mode = CommonValue({zs[z].hvac_mode : z \in ids}, "none"),
            !.preset_mode = CommonValue({zs[z].preset_mode : z \in ids}, "none")]
    IN  SetActive(shown, any_output, switch_fails)

\* The setter of a zone's climate entity that a circuit calls for op:
\* "temperature", "hvac_mode" or "preset_mode".
ZoneSetter(z, op, value) ==
    IF op = "temperature" THEN SetterResult(AsyncSetTemperature(z, value), FALSE)
    ELSE IF op = "hvac_mode" THEN SetterResult(SetHvacMode(z, value), FALSE)
    ELSE AsyncSetPresetMode(z, value)

\* The progress of a circuit's handle_..._changed: the zones, the zones
\* whose setter was invoked, and whether an exception is propagating.
FanOutAcc(zs, invoked, raised) ==
    [zones |-> zs, invoked |-> invoked, raised |-> raised]

\* The zone setter of zone z has ended as r.
FanOutDone(acc, z, r) ==
    FanOutAcc([acc.zones EXCEPT ![z] = r.zone], acc.invoked \cup {z}, r.raised)

\* Circuit.handle_target_temperature_changed, handle_hvac_mode_changed and
\* handle_preset_changed: the owned zones' setters are awaited one after
\* another, up to the first that raises.
RECURSIVE HandleChanged(_, _, _, _)
HandleChanged(owned, acc, op, value) ==
    IF owned = <<>> \/ acc.raised THEN acc
    ELSE HandleChanged(Tail(owned),
                       FanOutDone(acc, Head(owned),
                                  ZoneSetter(acc.zones[Head(owned)], op, value)),
                       op, value)

\* CircuitClimate.async_set_temperature, async_set_hvac_mode and
\* async_set_preset_mode: the circuit's own attribute is set first.
CircuitSetter(c, op, value) ==
    IF op = "temperature" THEN [c EXCEPT !.target = value]
    ELSE IF op = "hvac_mode" THEN [c EXCEPT !.hvac_mode = value]
    ELSE [c EXCEPT !.preset_mode = value]

(***************************************************************************)
(* hub.Hub                                                                 *)
(***************************************************************************)
\* timedelta(seconds=20): the wait interval of the boiler tracker.
BoilerWait == 20

\* Hub.__init__.
HubInit == [boiler |-> OnlineTrackerInit, control_fault |-> FALSE, output |-> Zero]

\* What one tick is given by the host: per zone the sensor reading, the
\* window state, the PID sample and the place where the step raises; the
\* circuits whose switch command raises.
TickInput(readings, window_open, samples, fails, switch_fails) ==
    [readings |-> readings, window_open |-> window_open, samples |-> samples,
     fails |-> fails, switch_fails |-> switch_fails]

\* The progress of a tick: the objects' state, the running maximum of the
\* outputs, the zone steps and circuit steps that were run, the zone steps
\* and circuit steps that raised, whether an exception is propagating, and
\* the write each zone step made to its control fault indicator, and the
\* regulator output the tick read after each zone step.
TickAcc(zs, cs) ==
    [zones |-> zs, circuits |-> cs, output |-> Zero, zones_run |-> {},
     zones_raised |-> {}, circuits_run |-> {}, circuits_raised |-> {},
     raised |-> FALSE, zone_writes |-> [z \in Zones |-> "none"],
     outputs_read |-> [z \in Zones |-> Zero]]

\* Hub._open_trvs_start_pumps, first loop: operate_trvs(1) on every zone.
RECURSIVE OpenTrvs(_, _, _, _)
OpenTrvs(order, acc, cfg, in) ==
    IF order = <<>> THEN acc
    ELSE IF cfg[Head(order)].has_trvs /\ in.fails[Head(order)] = "valve"
    THEN [acc EXCEPT !.raised = TRUE]
    ELSE OpenTrvs(Tail(order),
                  [acc EXCEPT !.zones[Head(order)] =
                      OperateTrvs(@, cfg[Head(order)], <<OutputLimit, 1>>)],
                  cfg, in)

\* Hub._open_trvs_start_pumps, second loop: set_active(True) on every circuit.
RECURSIVE StartPumps(_, _, _)
StartPumps(order, acc, in) ==
    IF order = <<>> THEN acc
    ELSE IF Head(order) \in in.switch_fails
    THEN [acc EXCEPT !.raised = TRUE]
    ELSE StartPumps(Tail(order),
                    [acc EXCEPT !.circuits[Head(order)] =
                        SetActive(@, TRUE, FALSE).circuit],
                    in)

\* The callback from its second loop on, the first having ended as a.
StartPumpsAfter(a, in) ==
    IF a.raised THEN a ELSE StartPumps(CircuitOrder, a, in)

\* Hub._open_trvs_start_pumps(): the boiler tracker's offline callback.
OpenTrvsStartPumps(zs, cs, cfg, in) ==
    StartPumpsAfter(OpenTrvs(ZoneOrder, TickAcc(zs, cs), cfg, in), in)

\* A mutant of ZoneStepDone: a zone step that raised ends the loop over the
\* zones, as an exception leaving the step would.
ZoneStepDoneFaultStops(acc, z, r) ==
    [acc EXCEPT !.zones[z] = r.zone,
                !.zones_run = @ \cup {z},
                !.zones_raised = IF r.raised THEN @ \cup {z} ELSE @,
                !.output = IF r.raised THEN @
                           ELSE MaxOutput(@, RegulatorOutput(r.zone)),
                !.raised = r.raised]

\* The progress of the tick after the control step of zone z ended as r:
\* the tick keeps the maximum of the regulator outputs.
ZoneStepDone(acc, z, r) ==
    CHOOSE done \in
        {[acc EXCEPT !.zones[z] = s.zone,
                     !.zones_run = @ \cup {z},
                     !.zones_raised = IF s.raised THEN @ \cup {z} ELSE @,
                     !.output = IF s.propagated THEN @
                                ELSE MaxOutput(@, RegulatorOutput(s.zone)),
                     !.raised = s.propagated,
                     !.zone_writes[z] = s.fault_write,
                     !.outputs_read[z] = IF s.propagated THEN @
                                         ELSE RegulatorOutput(s.zone)] :
            s \in {r}} : TRUE

\* The control step of zone z within a tick.
StepZone(acc, z, cfg, in) ==
    CHOOSE done \in
        {ZoneStepDone(a, z,
                      ControlTemperature(a.zones[z], cfg[z], in.readings[z],
                                         in.window_open[z], in.samples[z],
                                         in.fails[z])) : a \in {acc}} : TRUE

\* The first loop of the tick goes on with the zones in order, unless an
\* exception is propagating.
RECURSIVE ControlZones(_, _, _, _)
LoopZones(order, acc, cfg, in) ==
    IF acc.raised THEN acc ELSE ControlZones(order, acc, cfg, in)

\* The first loop of the tick: each zone's control step, and the maximum of
\* the regulator outputs read after each step.
ControlZones(order, acc, cfg, in) ==
    IF order = <<>> THEN acc
    ELSE CHOOSE done \in
             {LoopZones(Tail(order), a, cfg, in) :
                 a \in {StepZone(acc, Head(order), cfg, in)}} : TRUE

\* A mutant of CircuitStepDone: a circuit step that raised does not end the
\* loop over the circuits.
CircuitStepDoneGoesOn(acc, c, r) ==
    [acc EXCEPT !.circuits[c] = r.circuit,
                !.circuits_run = @ \cup {c},
                !.circuits_raised = IF r.raised THEN @ \cup {c} ELSE @]

\* The progress of the tick after the control step of circuit c ended as r.
CircuitStepDone(acc, c, r) ==
    [acc EXCEPT !.circuits[c] = r.circuit,
                !.circuits_run = @ \cup {c},
                !.circuits_raised = IF r.raised THEN @ \cup {c} ELSE @,
                !.raised = r.raised]

\* The second loop of the tick: each circuit's control step, up to the first
\* that raises.
RECURSIVE ControlCircuits(_, _, _)
LoopCircuits(order, acc, in) ==
    IF acc.raised THEN acc ELSE ControlCircuits(order, acc, in)

ControlCircuits(order, acc, in) ==
    IF order = <<>> THEN acc
    ELSE CHOOSE done \in
             {LoopCircuits(Tail(order), a, in) :
                 a \in {CircuitStepDone(b, Head(order), r) :
                           b \in {acc},
                           r \in {ControlCircuit(acc.circuits[Head(order)],
                                       CircuitZones[Head(order)], acc.zones,
                                       in.readings,
                                       Head(order) \in in.switch_fails)}}} : TRUE

\* The outcome of a tick.  result: "skipped" (the boiler is offline),
\* "ok", "caught" (the handler of the tick caught an exception) or "escaped"
\* (an exception left the tick).  callback: whether the boiler tracker's
\* callback was called, and whether it raised.  zone_writes and fault_write
\* are the writes made to the control fault indicators of the zones and of
\* the Hub ("set", "clear" or "none").
TickResult(h, acc, result, callback) ==
    [hub |-> h, zones |-> acc.zones, circuits |-> acc.circuits,
     last |-> [result |-> result, callback |-> callback,
               zones_run |-> acc.zones_run, zones_raised |-> acc.zones_raised,
               circuits_run |-> acc.circuits_run,
               circuits_raised |-> acc.circuits_raised,
               outputs_read |-> acc.outputs_read],
     zone_writes |-> acc.zone_writes, fault_write |-> "none"]

\* The end of the try block of the tick (the output is published and the
\* control fault cleared) or its "except Exception" handler, the loops
\* having ended as acc.
EndTick(h, acc) ==
    IF acc.raised
    THEN IF h.control_fault THEN TickResult(h, acc, "caught", "none")
         ELSE [TickResult([h EXCEPT !.control_fault = TRUE], acc, "caught",
                          "none") EXCEPT !.fault_write = "set"]
    ELSE IF h.control_fault
    THEN [TickResult([h EXCEPT !.output = acc.output, !.control_fault = FALSE],
                     acc, "ok", "none") EXCEPT !.fault_write = "clear"]
    ELSE TickResult([h EXCEPT !.output = acc.output], acc, "ok", "none")

\* The try block of the tick and its handler.
ControlHeatingGuarded(h, zs, cs, cfg, in) ==
    CHOOSE done \in
        {EndTick(g, acc) :
            g \in {h},
            acc \in {LoopCircuits(CircuitOrder, a, in) :
                        a \in {ControlZones(ZoneOrder, TickAcc(zs, cs),
                                            cfg, in)}}} : TRUE

\* The Hub after its boiler tracker's is_online call, t being what the call
\* leaves and returns.
TrackBoiler(h, t) == [h EXCEPT !.boiler = [fault |-> t.fault, awaiter |-> t.awaiter]]

\* A mutant of AfterBoilerCheck: the "return" after a not-online answer is
\* missing.
AfterBoilerCheckNoReturn(h, t, cb, zs, cs, cfg, in) ==
    IF t.raised THEN TickResult(TrackBoiler(h, t), cb, "escaped", "raised")
    ELSE ControlHeatingGuarded(TrackBoiler(h, t),
                               IF t.called THEN cb.zones ELSE zs,
                               IF t.called THEN cb.circuits ELSE cs, cfg, in)

\* The tick after the boiler tracker's is_online call, which is made before
\* the try block is entered: t is what the call leaves and returns, cb what
\* the offline callback does when it is called.
AfterBoilerCheck(h, t, cb, zs, cs, cfg, in) ==
    IF t.raised THEN TickResult(TrackBoiler(h, t), cb, "escaped", "raised")
    ELSE IF ~t.ret
    THEN IF t.called THEN TickResult(TrackBoiler(h, t), cb, "skipped", "returned")
         ELSE TickResult(TrackBoiler(h, t), TickAcc(zs, cs), "skipped", "none")
    ELSE ControlHeatingGuarded(TrackBoiler(h, t), zs, cs, cfg, in)

\* get_state_bool(boiler_online_sensor, default=False) as is_online reads
\* it: only a state that parses as true counts as online.  A Hub without
\* boiler status sensor assumes the boiler is online.
BoilerOnline(boiler) == boiler = "absent" \/ StrToBool(boiler) = "true"

\* The boiler tracker's is_online call of the tick, cb being what the
\* offline callback does when it is called.
CheckBoiler(h, cb, zs, cs, cfg, boiler, in) ==
    AfterBoilerCheck(h,
                     IsOnline(h.boiler, BoilerOnline(boiler), BoilerWait,
                              TRUE, cb.raised),
                     cb, zs, cs, cfg, in)

\* Hub._async_control_heating().  boiler is the state of the boiler status
\* sensor, "absent" when none is configured.
AsyncControlHeating(h, zs, cs, cfg, boiler, in) ==
    IF boiler = "absent" THEN ControlHeatingGuarded(h, zs, cs, cfg, in)
    ELSE CheckBoiler(h, OpenTrvsStartPumps(zs, cs, cfg, in), zs, cs, cfg,
                     boiler, in)

(***************************************************************************)
(* The Hub driven one tick at a time                                       *)
(***************************************************************************)
\* The zones of the Hub under check: both use a HysteresisRegulator and
\* have no window sensor; the first one has valves.
HubZoneConfig ==
    [z \in Zones |-> [regulator_type |-> "Hysteresis", has_window |-> FALSE,
                      has_trvs |-> z = 1]]

\* The readings the zone sensors give during a tick of the Hub under check.
HubReadings == {DefaultTarget - 1, DefaultTarget + 1}

\* The place where the step of a zone can raise during a tick of the Hub
\* under check: a valve command in a zone with valves, the regulator
\* computation in a zone without.
HubFailPoints(cfg) ==
    {"none"} \cup (IF cfg.has_trvs THEN {"valve"} ELSE {"compute"})

\* The circuits whose switch command can raise during a tick of the Hub
\* under check: none, or the first one.
HubSwitchFails == {{}, {1}}

\* No tick has run yet.  Besides the outcome of the last tick, hub_last
\* keeps whether the tick left the Hub's output and control fault as it
\* found them (kept), how the tick found the boiler (boiler_was), and the
\* number of times the offline callback was invoked in the current run of
\* ticks that read the boiler as not online (ep_calls), and the regulator
\* output the tick read after each zone step (outputs_read).
NoTick ==
    [result |-> "none", callback |-> "none", zones_run |-> {},
     zones_raised |-> {}, circuits_run |-> {}, circuits_raised |-> {},
     kept |-> TRUE, boiler_was |-> "online", ep_calls |-> 0,
     outputs_read |-> [z \in Zones |-> Zero]]

\* How a tick finds the boiler, tr being its tracker before the tick:
\* "online"; not online with the fault already set ("faulted"); not online
\* with the deadline elapsed, which is the transition to offline
\* ("expired"); or not online within the grace period ("grace").
BoilerWas(tr, boiler) ==
    IF BoilerOnline(boiler) THEN "online"
    ELSE IF tr.fault THEN "faulted"
    ELSE IF tr.awaiter # None /\ Elapsed(tr.awaiter) THEN "expired"
    ELSE "grace"

\* The record of a tick that ended as last.
TickRecord(last, h, after, boiler, before) ==
    [result |-> last.result, callback |-> last.callback,
     zones_run |-> last.zones_run, zones_raised |-> last.zones_raised,
     circuits_run |-> last.circuits_run,
     circuits_raised |-> last.circuits_raised,
     kept |-> after.output = h.output /\ after.control_fault = h.control_fault,
     boiler_was |-> BoilerWas(h.boiler, boiler),
     ep_calls |-> IF BoilerOnline(boiler) THEN 0
                  ELSE IF last.callback # "none" THEN Bump(before.ep_calls)
                  ELSE before.ep_calls,
     outputs_read |-> last.outputs_read]

\* One tick of the Hub.
HubTick(readings, samples, fails, switch_fails) ==
    \E in \in {TickInput(readings,
                         [z \in Zones |-> WindowOpen(window_state[z])],
                         samples, fails, switch_fails)} :
    \E r \in {AsyncControlHeating(hub, zones, circuits, zone_cfg,
                                  boiler_sensor, in)} :
        /\ hub' = r.hub
        /\ zones' = r.zones
        /\ circuits' = r.circuits
        /\ hub_last' = TickRecord(r.last, hub, r.hub, boiler_sensor, hub_last)
        /\ UNCHANGED <<boiler_sensor, circuit_last, ticks, zone_cfg,
                       window_state, since_open, zone_last, trackerVars,
                       regVars>>

\* The boiler status sensor changes state.
BoilerSensorChange(state) ==
    /\ boiler_sensor # "absent"
    /\ boiler_sensor # state
    /\ boiler_sensor' = state
    /\ UNCHANGED <<hub, circuits, hub_last, circuit_last, ticks, zoneVars,
                   trackerVars, regVars>>

\* dt seconds pass.
HubAdvance(dt) ==
    /\ hub' = [hub EXCEPT !.boiler.awaiter = AdvanceDeadline(@, dt)]
    /\ zones' = [z \in Zones |-> AdvanceZone(zones[z], dt)]
    /\ UNCHANGED <<boiler_sensor, circuits, hub_last, circuit_last, ticks,
                   zone_cfg, window_state, since_open, zone_last, trackerVars,
                   regVars>>

HubNext ==
    \/ \E readings \in [Zones -> HubReadings],
          fails \in {f \in [Zones -> FailPoints \cup {"none"}] :
                        \A z \in Zones : f[z] \in HubFailPoints(zone_cfg[z])},
          switch_fails \in HubSwitchFails :
          HubTick(readings, [z \in Zones |-> 0], fails, switch_fails)
    \/ \E state \in SensorStates : BoilerSensorChange(state)
    \/ HubAdvance(BoilerWait)

\* The ticks of a Hub whose zones use a PidRegulator, with nothing raising.
PidHubNext ==
    \/ \E readings \in [Zones -> HubReadings] :
          \E samples \in {f \in [Zones -> PidSamples] :
                             \A z \in Zones :
                                 f[z] \in PidSamplesAt(zones[z].regulator,
                                                       readings[z])} :
              HubTick(readings, samples, [z \in Zones |-> "none"], {})
    \/ \E m \in {"heat", "off"} : ZoneSetHvacMode(TheZone, m)

\* A tick of the Hub in which nothing raises.
TickOfTheHub ==
    \E readings \in [Zones -> HubReadings] :
        HubTick(readings, [z \in Zones |-> 0], [z \in Zones |-> "none"], {})

\* The ticks of a Hub with a boiler status sensor in which nothing raises,
\* while the boiler goes and comes back, the user switches the first zone
\* off and on, and time passes.
RecoverNext ==
    \/ TickOfTheHub
    \/ \E state \in SensorStates : BoilerSensorChange(state)
    \/ \E m \in {"heat", "off"} : ZoneSetHvacMode(TheZone, m)
    \/ HubAdvance(BoilerWait)

(***************************************************************************)
(* Circuits and climate entities driven from outside the tick              *)
(***************************************************************************)
\* No call has been made on a circuit.  circuit_last keeps the last call: a
\* control step ("step") or a setter of the circuit's climate entity, the
\* circuit, the zones whose setter the call invoked, whether it raised,
\* and for a step whether an owned zone had a positive regulator output
\* (any_output) or its valve-open indicator on (any_trv) when it ran, the
\* readings of the zones' sensors (readings), and the targets, HVAC modes and
\* presets of the owned zones when it ran.
NoCircuitCall ==
    [op |-> "none", circuit |-> 1, invoked |-> {}, raised |-> FALSE,
     any_output |-> FALSE, any_trv |-> FALSE,
     readings |-> [z \in Zones |-> None], targets |-> {}, hvac_modes |-> {},
     preset_modes |-> {}]

OwnedZones(c) == {CircuitZones[c][i] : i \in DOMAIN CircuitZones[c]}

\* One call of control_circuit on circuit c, outside a tick.
CircuitStep(c, readings) ==
    \E r \in {ControlCircuit(circuits[c], CircuitZones[c], zones, readings,
                             FALSE)} :
        /\ circuits' = [circuits EXCEPT ![c] = r.circuit]
        /\ circuit_last' =
              [op |-> "step", circuit |-> c, invoked |-> {}, raised |-> r.raised,
               any_output |-> \E z \in OwnedZones(c) :
                                 Positive(RegulatorOutput(zones[z])),
               any_trv |-> \E z \in OwnedZones(c) : zones[z].trv_open,
               readings |-> readings,
               targets |-> {zones[z].target : z \in OwnedZones(c)},
               hvac_modes |-> {zones[z].hvac_mode : z \in OwnedZones(c)},
               preset_modes |-> {zones[z].preset_mode : z \in OwnedZones(c)}]
        /\ UNCHANGED <<boiler_sensor, hub, hub_last, ticks, zoneVars,
                       trackerVars, regVars>>

\* The user changes the target temperature, the HVAC mode or the preset on
\* the climate entity of circuit c.
CircuitClimateSet(c, op, value) ==
    \E r \in {HandleChanged(CircuitZones[c], FanOutAcc(zones, {}, FALSE),
                            op, value)} :
        /\ circuits' = [circuits EXCEPT ![c] = CircuitSetter(@, op, value)]
        /\ zones' = r.zones
        /\ circuit_last' =
              [NoCircuitCall EXCEPT !.op = op, !.circuit = c,
                                    !.invoked = r.invoked, !.raised = r.raised]
        /\ UNCHANGED <<boiler_sensor, hub, hub_last, ticks, zone_cfg,
                       window_state, since_open, zone_last, trackerVars,
                       regVars>>

\* The user changes the target temperature or the preset on the climate
\* entity of zone z.
ZoneSetTemperature(z, value) ==
    /\ zones' = [zones EXCEPT ![z] = AsyncSetTemperature(@, value)]
    /\ UNCHANGED <<zone_cfg, window_state, since_open, zone_last,
                   trackerVars, regVars, hubVars>>

ZoneSetPresetMode(z, preset_mode) ==
    /\ zones' = [zones EXCEPT ![z] = AsyncSetPresetMode(@, preset_mode).zone]
    /\ UNCHANGED <<zone_cfg, window_state, since_open, zone_last,
                   trackerVars, regVars, hubVars>>

\* The target temperatures the user sets.
UserTargets == {DefaultTarget - 1, DefaultTarget}

\* The circuit whose climate entity the user changes: the one that owns
\* every zone.
TheCircuit == 1

\* The climate entities of the zones and of one circuit, used by the user.
ClimateNext ==
    \/ \E value \in UserTargets :
          CircuitClimateSet(TheCircuit, "temperature", value)
    \/ \E value \in {"heat", "off"} :
          CircuitClimateSet(TheCircuit, "hvac_mode", value)
    \/ \E value \in PresetModes :
          CircuitClimateSet(TheCircuit, "preset_mode", value)
    \/ \E value \in UserTargets : ZoneSetTemperature(TheZone, value)
    \/ \E m \in {"heat", "off"} : ZoneSetHvacMode(TheZone, m)
    \/ \E p \in PresetModes : ZoneSetPresetMode(TheZone, p)

\* The readings of the zones' sensors when a circuit is stepped: none, 0
\* degrees, or a degree below the default target.
CircuitReadings == {None, 0, DefaultTarget - 1}

\* The circuits' control steps, between changes the user makes on the
\* climate entities of the zones.
ShownNext ==
    \/ ZoneSetTemperature(TheZone, DefaultTarget - 1)
    \/ \E m \in {"heat", "off"} : ZoneSetHvacMode(TheZone, m)
    \/ \E z \in Zones, p \in PresetModes : ZoneSetPresetMode(z, p)
    \/ \E c \in Circuits, readings \in [Zones -> CircuitReadings] :
          CircuitStep(c, readings)

\* One zone without window sensor, controlled without exceptions, and the
\* circuits' control steps.
CircuitNext ==
    \/ \E cur_temp \in Readings :
          \E sample \in SamplesFor(zone_cfg[TheZone], cur_temp, "none") :
              ZoneStep(TheZone, cur_temp, sample, "none")
    \/ \E m \in {"heat", "off"} : ZoneSetHvacMode(TheZone, m)
    \/ \E c \in Circuits, t \in Readings :
          CircuitStep(c, [z \in Zones |-> t])
    \/ \E dt \in ClockSteps : ZoneAdvance(dt)

(***************************************************************************)
(* The tick handler as the host runs it: one invocation per firing of the  *)
(* interval timer, each suspended at its awaited actuator commands         *)
(***************************************************************************)
\* The invocations of the tick handler that can be in progress at a time.
MaxInFlight == 2

Invocations == 1 .. MaxInFlight

\* An invocation that is not in progress.  pc is where an invocation
\* stands: before the step of the zone or circuit number at ("zone",
\* "circuit"), or suspended on the actuator command of that step
\* ("zone_await", "circuit_await").  output is the local of the tick,
\* held_output the argument of operate_trvs, held_active that of
\* set_active; zones_done and circuits_done are the steps that have
\* finished.
IdleTick ==
    [pc |-> "idle", at |-> 1, output |-> Zero, held_output |-> Zero,
     held_active |-> FALSE, zones_done |-> {}, circuits_done |-> {}]

\* A mutant of AfterZone: the circuits are controlled as soon as the first
\* zone step has finished.
AfterZoneSkipsRest(t, z, output) ==
    [t EXCEPT !.pc = "circuit", !.at = 1,
              !.output = MaxOutput(@, output),
              !.zones_done = @ \cup {z}]

\* The invocation after the step of zone z has finished, the zone's
\* regulator output being output: the next zone, or the first circuit.
AfterZone(t, z, output) ==
    [t EXCEPT !.pc = IF t.at < Len(ZoneOrder) THEN "zone" ELSE "circuit",
              !.at = IF t.at < Len(ZoneOrder) THEN t.at + 1 ELSE 1,
              !.output = MaxOutput(@, output),
              !.zones_done = @ \cup {z}]

\* The handlers run on one event loop: an invocation runs from one awaited
\* command to the next without giving way, so the loop is free for the
\* timer, or for another invocation to resume, only when every invocation
\* in progress other than i is suspended on a command.
LoopFreeFor(i) ==
    \A j \in Invocations \ {i} : ticks[j].pc \notin {"zone", "circuit"}

\* The interval timer fires: the host starts an invocation of
\* _async_control_heating.  Nothing in the Hub makes it wait for an
\* invocation in progress.  (The free slots are taken in order.)
TimerFires(i) ==
    /\ ticks[i].pc = "idle"
    /\ LoopFreeFor(i)
    /\ \A j \in Invocations : j < i => ticks[j].pc # "idle"
    /\ ticks' = [ticks EXCEPT ![i] = [IdleTick EXCEPT !.pc = "zone"]]
    /\ UNCHANGED <<boiler_sensor, hub, circuits, hub_last, circuit_last,
                   zoneVars, trackerVars, regVars>>

\* Invocation i runs the control step of its next zone up to the first
\* valve command, where it is suspended, or to its end when the step
\* commands no valve.  b is the step up to the valve command.
ZoneStepStarts(i, cur_temp) ==
    /\ ticks[i].pc = "zone"
    /\ LoopFreeFor(i)
    /\ \E z \in {ZoneOrder[ticks[i].at]} :
       \E b \in {ControlTemperatureBody(zones[z], zone_cfg[z], cur_temp,
                                        WindowOpen(window_state[z]), 0,
                                        "valve")} :
          IF b.raised
          THEN /\ zones' = [zones EXCEPT ![z] =
                      [b.zone EXCEPT !.trv_command =
                          IF Positive(Output(b.zone.regulator))
                          THEN "heat" ELSE "off"]]
               /\ ticks' = [ticks EXCEPT ![i] =
                      [@ EXCEPT !.pc = "zone_await",
                                !.held_output = Output(b.zone.regulator)]]
          ELSE /\ zones' = [zones EXCEPT ![z] = ExceptHandler(b).zone]
               /\ ticks' = [ticks EXCEPT ![i] =
                      AfterZone(@, z, RegulatorOutput(ExceptHandler(b).zone))]
    /\ UNCHANGED <<boiler_sensor, hub, circuits, hub_last, circuit_last,
                   zone_cfg, window_state, since_open, zone_last,
                   trackerVars, regVars>>

\* The valve command returns: the step sets the valve-open indicator,
\* clears the control fault and ends; the tick reads the regulator output.
ZoneStepResumes(i) ==
    /\ ticks[i].pc = "zone_await"
    /\ LoopFreeFor(i)
    /\ \E z \in {ZoneOrder[ticks[i].at]} :
       \E r \in {Recovered(OperateTrvs(zones[z], zone_cfg[z],
                                       ticks[i].held_output)).zone} :
          /\ zones' = [zones EXCEPT ![z] = r]
          /\ ticks' = [ticks EXCEPT ![i] = AfterZone(@, z, RegulatorOutput(r))]
    /\ UNCHANGED <<boiler_sensor, hub, circuits, hub_last, circuit_last,
                   zone_cfg, window_state, since_open, zone_last,
                   trackerVars, regVars>>

\* Invocation i runs the control step of its next circuit up to the switch
\* command, where it is suspended.
CircuitStepStarts(i, readings) ==
    /\ ticks[i].pc = "circuit"
    /\ LoopFreeFor(i)
    /\ \E c \in {CircuitOrder[ticks[i].at]} :
       \E r \in {ControlCircuit(circuits[c], CircuitZones[c], zones, readings,
                                FALSE).circuit} :
          /\ circuits' = [circuits EXCEPT ![c] =
                 [r EXCEPT !.active = circuits[c].active]]
          /\ ticks' = [ticks EXCEPT ![i] =
                 [@ EXCEPT !.pc = "circuit_await", !.held_active = r.active]]
    /\ UNCHANGED <<boiler_sensor, hub, hub_last, circuit_last, zoneVars,
                   trackerVars, regVars>>

\* The switch command returns: the step sets the active indicator and
\* ends.  After the last circuit the tick publishes its output, clears the
\* Hub's control fault and ends.
CircuitStepResumes(i) ==
    /\ ticks[i].pc = "circuit_await"
    /\ LoopFreeFor(i)
    /\ \E c \in {CircuitOrder[ticks[i].at]} :
          /\ circuits' = [circuits EXCEPT ![c].active = ticks[i].held_active]
          /\ IF ticks[i].at < Len(CircuitOrder)
             THEN /\ ticks' = [ticks EXCEPT ![i] =
                        [@ EXCEPT !.pc = "circuit", !.at = @ + 1,
                                  !.circuits_done = @ \cup {c}]]
                  /\ hub' = hub
             ELSE /\ ticks' = [ticks EXCEPT ![i] = IdleTick]
                  /\ hub' = [hub EXCEPT !.output = ticks[i].output,
                                        !.control_fault = FALSE]
    /\ UNCHANGED <<boiler_sensor, hub_last, circuit_last, zoneVars,
                   trackerVars, regVars>>

TicksNext ==
    \/ \E i \in Invocations : TimerFires(i)
    \/ \E i \in Invocations, cur_temp \in HubReadings :
          ZoneStepStarts(i, cur_temp)
    \/ \E i \in Invocations : ZoneStepResumes(i)
    \/ \E i \in Invocations, t \in HubReadings :
          CircuitStepStarts(i, [z \in Zones |-> t])
    \/ \E i \in Invocations : CircuitStepResumes(i)

(***************************************************************************)
(* Specifications                                                          *)
(***************************************************************************)
\* The state after construction and initialize(): the stand-alone tracker
\* with a callback that raises or not (callbacks), the stand-alone regulator
\* of one of kinds, the zones configured by one of configs, and the Hub with
\* one of sensors as its boiler status sensor.  A component that is not the
\* one under check is given a single choice and never acted upon.
Start(callbacks, kinds, configs, sensors) ==
    /\ tracker = OnlineTrackerInit
    /\ tr_cb \in callbacks
    /\ tr_last = NoCall
    /\ tr_ep = NoEpisode
    /\ retry = RetryTrackerInit
    /\ retry_ep = NoFaults
    /\ reg \in {RegulatorNew(kind) : kind \in kinds}
    /\ reg_last = NoRegOp
    /\ zone_cfg \in configs
    /\ zones = [z \in Zones |-> ZoneInit(zone_cfg[z])]
    /\ window_state = [z \in Zones |-> "off"]
    /\ since_open = [z \in Zones |-> WarmupTime]
    /\ zone_last = [z \in Zones |-> NoStep]
    /\ boiler_sensor \in sensors
    /\ hub = HubInit
    /\ circuits = [c \in Circuits |-> CircuitInit]
    /\ hub_last = NoTick
    /\ circuit_last = NoCircuitCall
    /\ ticks = [i \in Invocations |-> IdleTick]

TrackerInit == Start(BOOLEAN, {"PID"}, OnlyTheZone({IdleConfig}), {"absent"})

RegulatorInit ==
    Start({FALSE}, {"PID", "Hysteresis"}, OnlyTheZone({IdleConfig}), {"absent"})

\* TheZone has any configuration.
ZoneInitAny == Start({FALSE}, {"PID"}, OnlyTheZone(ZoneConfigs), {"absent"})

\* TheZone has a window sensor.
ZoneInitWindow ==
    Start({FALSE}, {"PID"},
          OnlyTheZone({k \in ZoneConfigs : k.has_window}), {"absent"})

\* TheZone has no window sensor.
CircuitInitAny ==
    Start({FALSE}, {"PID"},
          OnlyTheZone({k \in ZoneConfigs : ~k.has_window}), {"absent"})

\* Every zone as IdleConfig describes it.
ClimateInit == Start({FALSE}, {"PID"}, OnlyTheZone({IdleConfig}), {"absent"})

\* The Hub with or without a boiler status sensor.
HubInitAny == Start({FALSE}, {"PID"}, {HubZoneConfig}, {"absent", "on"})

SpecTracker == TrackerInit /\ [][TrackerNext]_vars

\* The stand-alone RetryTracker.
SpecRetry ==
    /\ Start({FALSE}, {"PID"}, OnlyTheZone({IdleConfig}), {"absent"})
    /\ [][RetryNext]_vars

SpecRegulator == RegulatorInit /\ [][RegulatorNext]_vars

SpecZone == ZoneInitAny /\ [][ZoneNext]_vars

\* One zone with a window sensor, controlled without exceptions.
SpecWindow == ZoneInitWindow /\ [][WindowNext]_vars

\* TheZone has valves and a window sensor.
ZoneInitLive ==
    Start({FALSE}, {"PID"},
          OnlyTheZone({k \in ZoneConfigs : k.has_window /\ k.has_trvs}),
          {"absent"})

\* One zone stepped by the tick: the tick comes again and again
\* (async_track_time_interval), and time passes.
SpecZoneLive ==
    /\ ZoneInitLive
    /\ [][LiveNext]_vars
    /\ WF_vars(TickOfTheZone)
    /\ SF_vars(TimePasses)

\* The ZoneWindow objects of two zones, polled by should_heat().
SpecPoll ==
    /\ Start({FALSE}, {"PID"},
             {[z \in Zones |-> [IdleConfig EXCEPT !.has_window = TRUE]]},
             {"absent"})
    /\ [][PollNext]_vars

\* The zones' and circuits' control steps, run from outside the tick.
SpecCircuit == CircuitInitAny /\ [][CircuitNext]_vars

\* The circuits' displayed values under changing zones.
SpecShown ==
    /\ Start({FALSE}, {"PID"}, {[z \in Zones |-> IdleConfig]}, {"absent"})
    /\ [][ShownNext]_vars

\* The climate entities under the user's hands.
SpecClimate == ClimateInit /\ [][ClimateNext]_vars

\* The Hub without boiler status sensor, its tick handler run by the host's
\* interval timer and suspended at its awaited actuator commands.
SpecTicks ==
    Start({FALSE}, {"PID"}, {HubZoneConfig}, {"absent"}) /\ [][TicksNext]_vars

\* A Hub without boiler status sensor whose zones use a PidRegulator.
SpecPidHub ==
    /\ Start({FALSE}, {"PID"}, {[z \in Zones |-> IdleConfig]}, {"absent"})
    /\ [][PidHubNext]_vars

\* The Hub with a boiler status sensor, in ticks where nothing raises: the
\* tick comes again and again (async_track_time_interval), and time passes.
SpecRecover ==
    /\ Start({FALSE}, {"PID"}, {HubZoneConfig}, {"on"})
    /\ [][RecoverNext]_vars
    /\ WF_vars(TickOfTheHub)
    /\ SF_vars(HubAdvance(BoilerWait))

\* The Hub with its zones and circuits.
Spec == HubInitAny /\ [][HubNext]_vars

(***************************************************************************)
(* Claims about the stand-alone OnlineTracker (SpecTracker)                *)
(***************************************************************************)
\* The last call had a false input that came later than WaitInterval after
\* the first false input of the current run of false inputs.
FedFalseBeyondWait ==
    /\ tr_last.made
    /\ ~tr_last.raw
    /\ tr_ep.call_span > WaitInterval

\* Within the current run of false inputs the fault indicator was set at
\* most once and the callback was invoked at most once; exactly once each
\* when the run has lasted beyond the wait interval.
ExactlyOnceInEpisode ==
    /\ tr_ep.sets <= 1
    /\ tr_ep.calls <= 1
    /\ FedFalseBeyondWait =>
          /\ tracker.fault
          /\ tr_ep.sets = 1
          /\ tr_cb => tr_ep.calls = 1

\* C8: fed false for longer than W, the fault indicator becomes
\* true exactly once and the offline callback is invoked exactly once in that
\* run of false inputs, whatever the callback does.
C8_ExactlyOnce == ExactlyOnceInEpisode

\* C11: a call of is_online whose offline callback raised has propagated the
\* exception to its caller, and has left the fault indicator false without
\* writing to it.
C11_CallbackFailurePropagates ==
    tr_last.made /\ tr_last.cb_raises =>
        /\ tr_last.raised
        /\ tr_last.wrote = "none"
        /\ ~tracker.fault

\* The deadline had elapsed with the input still false, the callback was
\* invoked and raised.
C11_Witness ==
    /\ tr_last.made
    /\ ~tr_last.raw
    /\ Elapsed(tr_last.pre_awaiter)
    /\ tr_last.called
    /\ tr_last.cb_raises
    /\ tr_last.raised
    /\ ~tracker.fault

\* C9: while false has been fed for a span shorter than W every call returns
\* true, the fault indicator stays false and no callback runs; and a true
\* input leaves no pending deadline.
C9_ShortOutageIsInvisible ==
    /\ (tr_last.made /\ ~tr_last.raw /\ tr_ep.call_span < WaitInterval) =>
          /\ ~tr_last.raised
          /\ tr_last.ret
          /\ ~tracker.fault
          /\ tr_ep.calls = 0
          /\ tr_ep.sets = 0
    /\ (tr_last.made /\ tr_last.raw) =>
          /\ tr_last.ret
          /\ ~tracker.fault
          /\ tracker.awaiter = None

\* True was fed after several false inputs spread over a span shorter than W:
\* the call before it found a deadline pending.
C9_Witness ==
    /\ tr_last.made
    /\ tr_last.raw
    /\ tr_last.pre_awaiter # None
    /\ tr_ep.ended_span > 0
    /\ tr_ep.ended_span < WaitInterval
    /\ tr_ep.ended_falses >= 2
    /\ tracker.awaiter = None

\* C10: a call that returns returns false exactly when its input is false and
\* the tracker is Faulted after it; a true input returns true and leaves the
\* tracker Healthy (no fault, no deadline).
C10_ReturnValue ==
    (tr_last.made /\ ~tr_last.raised) =>
        /\ ~tr_last.ret <=> (~tr_last.raw /\ tracker.fault)
        /\ tr_last.raw => (tr_last.ret /\ ~tracker.fault /\ tracker.awaiter = None)

\* The call on which the deadline is found elapsed: it returns false and the
\* tracker is Faulted after it.
C10_Witness ==
    /\ tr_last.made
    /\ ~tr_last.raw
    /\ ~tr_last.raised
    /\ ~tr_last.pre_fault
    /\ tr_last.pre_awaiter = 0
    /\ ~tr_last.ret
    /\ tracker.fault

(***************************************************************************)
(* Claims about the stand-alone regulators (SpecRegulator)                 *)
(***************************************************************************)
\* C5: for either regulator variant the output getter returns 0 whenever the
\* enabled flag is false.
C5_DisabledOutputIsZero == ~reg.enabled => Output(reg) = Zero

(***************************************************************************)
(* Claims about one zone's control step (SpecZone, SpecWindow)             *)
(***************************************************************************)
\* C3: Zone.control_temperature never propagates an exception to its caller:
\* wherever the step raises (sensor read or sensor tracker, enabled-flag
\* recomputation, regulator computation, display publish, valve command) the
\* exception is caught inside the zone, and the zone's control fault
\* indicator is true when the step returns.
C3_StepNeverPropagates ==
    \A z \in Zones :
        zone_last[z].ran =>
            /\ ~zone_last[z].propagated
            /\ zone_last[z].raised => zones[z].control_fault

\* A valve command raised in a step that had already published a positive
\* output; the step returned with the control fault set.
C3_Witness ==
    /\ zone_last[TheZone].ran
    /\ zone_last[TheZone].raised
    /\ zone_last[TheZone].fail = "valve"
    /\ ~zone_last[TheZone].propagated
    /\ Positive(zones[TheZone].output_display)
    /\ zones[TheZone].control_fault

\* C4: after every call of Zone.control_temperature in which no exception is
\* raised, the zone's control fault indicator is false, whatever the sensor
\* reading (present or unavailable), the HVAC mode, the sensor fault and the
\* window state.
C4_CleanStepClearsControlFault ==
    \A z \in Zones :
        zone_last[z].ran /\ ~zone_last[z].raised => ~zones[z].control_fault

\* C6: in a zone with window sensors, after every control step executed
\* while the window is open or its warmup is still pending, the zone's
\* regulator_output is 0.
C6_OpenWindowOutputIsZero ==
    \A z \in Zones :
        /\ zone_cfg[z].has_window
        /\ zone_last[z].ran
        /\ zone_last[z].window_open \/ zones[z].window.warmup_time # None
        => RegulatorOutput(zones[z]) = Zero

\* C7: in a zone with window sensors, the regulator is enabled at a control
\* step only if the window has been closed continuously for at least 5
\* minutes since it was last open, or has never been open.
C7_EnabledOnlyAfterWarmup ==
    \A z \in Zones :
        /\ zone_cfg[z].has_window
        /\ zone_last[z].ran
        /\ zones[z].regulator.enabled
        => zone_last[z].closed_long

(***************************************************************************)
(* Claims about the Hub tick (Spec)                                        *)
(***************************************************************************)
\* C1: no exception that reaches the tick handler during a Hub tick (from a
\* circuit step, from an actuator command, or from the boiler tracker's
\* offline callback; a zone step hands none on) propagates out of the
\* handler: every such exception ends the tick with the Hub control fault
\* indicator true.
C1_NoExceptionEscapesTick ==
    hub_last.circuits_raised # {} \/ hub_last.callback = "raised"
    => hub_last.result # "escaped" /\ hub.control_fault

\* C2: within one Hub tick, an exception raised inside one zone's control
\* step prevents neither the control step of any other zone nor the
\* aggregation step of any circuit from running in that tick (a circuit step
\* that raises itself ends the loop over the circuits).
C2_ZoneFaultIsIsolated ==
    hub_last.zones_raised # {} =>
        /\ hub_last.zones_run = Zones
        /\ hub_last.circuits_run # {}
        /\ hub_last.circuits_raised = {} => hub_last.circuits_run = Circuits

\* The step of the first zone raised; the second zone and both circuits
\* were still controlled in that tick.
C2_Witness ==
    /\ hub_last.zones_raised = {Head(ZoneOrder)}
    /\ hub_last.zones_run = Zones
    /\ hub_last.circuits_run = Circuits
    /\ hub_last.result = "ok"
    /\ zones[Head(ZoneOrder)].control_fault

(***************************************************************************)
(* Claims about the boiler check of the Hub tick (Spec)                    *)
(***************************************************************************)
\* The last tick found the boiler offline and its tracker answered.
BoilerReportedOffline ==
    /\ boiler_sensor # "absent"
    /\ hub_last.result \notin {"none", "escaped"}
    /\ hub_last.boiler_was \in {"faulted", "expired"}

\* The last tick found the boiler not online, within the grace period.
BoilerInGrace ==
    /\ boiler_sensor # "absent"
    /\ hub_last.result # "none"
    /\ hub_last.boiler_was = "grace"

\* C12: a tick in which the boiler tracker reports not-online runs no zone
\* step and no circuit step and leaves the Hub's output and control fault
\* as they were; a tick within the grace period runs every zone step and
\* the circuit steps as a tick without boiler sensor does.
C12_OfflineTickIsSkipped ==
    /\ BoilerReportedOffline =>
          /\ hub_last.result = "skipped"
          /\ hub_last.zones_run = {}
          /\ hub_last.circuits_run = {}
          /\ hub_last.kept
    /\ BoilerInGrace =>
          /\ hub_last.result \in {"ok", "caught"}
          /\ hub_last.zones_run = Zones
          /\ hub_last.circuits_raised = {} => hub_last.circuits_run = Circuits

\* A skipped tick that found a positive Hub output and the control fault
\* set.
C12_Witness ==
    /\ BoilerReportedOffline
    /\ hub_last.result = "skipped"
    /\ Positive(hub.output)
    /\ hub.control_fault

\* The last tick was the boiler tracker's transition to offline: it read
\* the boiler as not online and found the grace period elapsed.
BoilerWentOffline ==
    /\ boiler_sensor # "absent"
    /\ hub_last.result # "none"
    /\ hub_last.boiler_was = "expired"

\* Every valve is commanded "heat" and every circuit switch "turn_on", with
\* the valve-open and active indicators set.
AllOpenAndActive ==
    /\ \A z \in Zones : zone_cfg[z].has_trvs =>
          zones[z].trv_command = "heat" /\ zones[z].trv_open
    /\ \A c \in Circuits :
          circuits[c].switch_command = "on" /\ circuits[c].active

\* C13: the tick of the boiler's transition to offline leaves every valve
\* commanded "heat" and every circuit switched on and active, and the
\* fail-safe callback runs once, not again in later ticks of the same run of
\* not-online boiler status.
C13_FailSafeExactlyOnce ==
    /\ hub_last.ep_calls <= 1
    /\ BoilerWentOffline => AllOpenAndActive /\ hub_last.ep_calls = 1

(***************************************************************************)
(* Claims about the circuits (SpecCircuit, SpecClimate)                    *)
(***************************************************************************)
\* C14: after a control step of a circuit, its active indicator and the
\* command sent to its switch say whether an owned zone had a positive
\* regulator output or its valve-open indicator on.
C14_ActiveIsOutputOrTrv ==
    circuit_last.op = "step" =>
        LET active == circuit_last.any_output \/ circuit_last.any_trv IN
        /\ circuits[circuit_last.circuit].active = active
        /\ circuits[circuit_last.circuit].switch_command =
              IF active THEN "on" ELSE "off"

\* C15: a change made on a circuit's climate entity has invoked the setter
\* of every zone the circuit owns.
C15_SetterFansOut ==
    circuit_last.op \in {"temperature", "hvac_mode", "preset_mode"} =>
        circuit_last.invoked = OwnedZones(circuit_last.circuit)

(***************************************************************************)
(* Further claims about the zone's control step (SpecZone)                 *)
(***************************************************************************)
\* C16: in a zone with valves, after a control step that raised nothing and
\* in which the zone is permitted to call for heat (the regulator is
\* enabled, which includes should_heat() for a zone with a window), the
\* valves are commanded "heat" if the regulator output is positive and
\* "off" otherwise, and the valve-open indicator says the same; also when
\* the reading was unavailable within the sensor's grace period.
C16_ValvesFollowOutput ==
    \A z \in Zones :
        /\ zone_cfg[z].has_trvs
        /\ zone_last[z].ran
        /\ ~zone_last[z].raised
        /\ zones[z].regulator.enabled
        => /\ zones[z].trv_command =
                 IF Positive(RegulatorOutput(zones[z])) THEN "heat" ELSE "off"
           /\ zones[z].trv_open = Positive(RegulatorOutput(zones[z]))

\* C17: a control step that raised nothing has reached the publication of
\* the regulator's output, and the output display shows that output.
C17_OutputIsPublished ==
    \A z \in Zones :
        zone_last[z].ran /\ ~zone_last[z].raised =>
            /\ ~zone_last[z].early
            /\ zones[z].output_display = RegulatorOutput(zones[z])

\* C18: after a control step that got past the enabled-flag recomputation,
\* the regulator's enabled flag and the regulator-active indicator say
\* whether the HVAC mode is heat, the sensor fault is off and the window (if
\* any) lets the zone heat; a step that sets the sensor fault leaves the
\* regulator disabled.
C18_EnabledIsConjunction ==
    \A z \in Zones :
        zone_last[z].ran /\ zone_last[z].fail \notin {"sensor", "enable"} =>
            /\ zones[z].regulator.enabled = zone_last[z].may_heat
            /\ zones[z].regulator_active = zone_last[z].may_heat
            /\ zone_last[z].fault_set => ~zones[z].regulator.enabled

\* The step in which the sensor tracker set the sensor fault, in a zone in
\* heat mode whose regulator was enabled by an earlier step.
C18_Witness ==
    /\ zone_last[TheZone].ran
    /\ ~zone_last[TheZone].raised
    /\ zone_last[TheZone].fault_set
    /\ zones[TheZone].hvac_mode = "heat"
    /\ ~zones[TheZone].regulator.enabled
    /\ ~zones[TheZone].regulator_active

\* The write w that a tick or step made to a control-fault indicator that
\* was on or off before (was), having ended with an exception or not.
WriteOnlyOnChange(w, was, failed, ended_clean) ==
    /\ w = "set" => ~was /\ failed
    /\ w = "clear" => was /\ ended_clean
    /\ failed /\ was => w = "none"
    /\ ended_clean /\ ~was => w = "none"

\* The inputs of a tick of the Hub under check.
HubTickInputs ==
    {TickInput(readings, [z \in Zones |-> WindowOpen(window_state[z])],
               [z \in Zones |-> 0], fails, switch_fails) :
        readings \in [Zones -> HubReadings],
        fails \in {f \in [Zones -> FailPoints \cup {"none"}] :
                      \A z \in Zones : f[z] \in HubFailPoints(zone_cfg[z])},
        switch_fails \in HubSwitchFails}

\* The tick that the Hub makes in its present state when it is given in.
TickFromHere(in) ==
    AsyncControlHeating(hub, zones, circuits, zone_cfg, boiler_sensor, in)

\* The writes of a tick that ended as r obey WriteOnlyOnChange.
TickWritesOnChange(r) ==
    /\ r.last.result \in {"ok", "caught"} =>
          WriteOnlyOnChange(r.fault_write, hub.control_fault,
                            r.last.result = "caught", r.last.result = "ok")
    /\ r.last.result \notin {"ok", "caught"} => r.fault_write = "none"
    /\ \A z \in Zones :
          IF z \in r.last.zones_run
          THEN WriteOnlyOnChange(r.zone_writes[z], zones[z].control_fault,
                                 z \in r.last.zones_raised,
                                 z \notin r.last.zones_raised)
          ELSE r.zone_writes[z] = "none"

\* C22: the control-fault indicators of the zones and of the Hub are set
\* only in a tick that found them off and cleared only in a tick that found
\* them on; a failing tick after a failing one, and a clean tick after a
\* clean one, write nothing.  (Stated of the tick that follows any state
\* the Hub can reach.)
C22_FaultWrittenOnChange ==
    \A in \in HubTickInputs : TickWritesOnChange(TickFromHere(in))

\* After a failing tick with a failing zone step, both indicators on, a
\* tick can fail again in the same zone.
C22_Witness ==
    /\ hub_last.result = "caught"
    /\ hub.control_fault
    /\ \E z \in hub_last.zones_raised, in \in HubTickInputs :
          /\ zones[z].control_fault
          /\ TickFromHere(in).last.result = "caught"
          /\ z \in TickFromHere(in).last.zones_raised

(***************************************************************************)
(* Claims about the scheduling of the tick (SpecTicks)                     *)
(***************************************************************************)
InFlight == {i \in Invocations : ticks[i].pc # "idle"}

\* C19: at most one invocation of the tick handler is in progress at any
\* time.
C19_SingleTickInFlight == Cardinality(InFlight) <= 1

\* The zones that come before position at in the configuration order.
ZonesBefore(at) == {ZoneOrder[k] : k \in 1 .. (at - 1)}

CircuitsBefore(at) == {CircuitOrder[k] : k \in 1 .. (at - 1)}

\* C20: within every invocation of the tick, the zone steps run in
\* configuration order, each after the one before it has finished, and a
\* circuit step starts only when every zone step has finished.
C20_ZonesBeforeCircuits ==
    \A i \in InFlight :
        IF ticks[i].pc \in {"zone", "zone_await"}
        THEN /\ ticks[i].zones_done = ZonesBefore(ticks[i].at)
             /\ ticks[i].circuits_done = {}
        ELSE /\ ticks[i].zones_done = Zones
             /\ ticks[i].circuits_done = CircuitsBefore(ticks[i].at)

\* An invocation suspended in the step of its last circuit, every zone step
\* and the circuit steps before it having finished.
C20_Witness ==
    \E i \in Invocations :
        /\ ticks[i].pc = "circuit_await"
        /\ ticks[i].at = Len(CircuitOrder)
        /\ ticks[i].zones_done = Zones
        /\ ticks[i].circuits_done = CircuitsBefore(Len(CircuitOrder))

(***************************************************************************)
(* Claims about a zone stepped by the tick for ever (SpecZoneLive)         *)
(***************************************************************************)
\* A tick in which the zone's step raises.
RaisingTick ==
    /\ zone_last'[TheZone].tick # zone_last[TheZone].tick
    /\ zone_last'[TheZone].raised

\* C21: if from some tick onward no step of the zone raises, the zone's
\* control-fault indicator eventually becomes false and stays false,
\* whatever the readings, the HVAC mode and the window do.
C21_RecoveryIsRetried ==
    <>[][~RaisingTick]_vars => <>[](~zones[TheZone].control_fault)

\* The control fault is on after a tick that did not raise: the step
\* returned at the unavailable reading, and recovery is left to a later tick.
C21_Witness ==
    /\ zones[TheZone].control_fault
    /\ zone_last[TheZone].ran
    /\ zone_last[TheZone].tick
    /\ ~zone_last[TheZone].raised
    /\ zone_last[TheZone].early

(***************************************************************************)
(* More claims about the stand-alone OnlineTracker (SpecTracker)           *)
(***************************************************************************)
\* C23: is_online writes the fault indicator only on a transition: on only
\* when it was off and the grace period was running, off only when it was
\* on; no call writes the value the indicator already has.
C23_FaultWrittenOnTransition ==
    tr_last.made =>
        /\ tr_last.wrote = "on" =>
              /\ ~tr_last.pre_fault
              /\ tr_last.pre_awaiter # None
              /\ ~tr_last.raw
              /\ tracker.fault
        /\ tr_last.wrote = "off" =>
              /\ tr_last.pre_fault
              /\ tr_last.raw
              /\ ~tracker.fault
        /\ tr_last.wrote = "none" /\ ~tr_last.raised =>
              tracker.fault = tr_last.pre_fault

\* A call has cleared the fault indicator that an earlier call had set.
C23_Witness ==
    /\ tr_last.made
    /\ tr_last.wrote = "off"
    /\ tr_last.pre_fault

(***************************************************************************)
(* Claims about the ZoneWindow polled by should_heat() (SpecPoll)          *)
(***************************************************************************)
\* C24: should_heat() returns true exactly when it observes the window
\* closed and the full warm-up time has passed since the window was last
\* observed to close after having been observed open; an opening observed
\* during the warm-up makes the next closing start a full warm-up again.
C24_WarmupAfterClose ==
    \A z \in Zones :
        zone_last[z].ran =>
            zone_last[z].may_heat =
                (~zone_last[z].window_open /\ zone_last[z].closed_long)

\* A call during the warm-up, some time after the observed closing: the
\* window is observed closed and the call returns false.
C24_Witness ==
    \E z \in Zones :
        /\ zone_last[z].ran
        /\ ~zone_last[z].window_open
        /\ ~zone_last[z].may_heat
        /\ since_open[z] > 0
        /\ since_open[z] < WarmupTime

(***************************************************************************)
(* More claims about the stand-alone regulators (SpecRegulator)            *)
(***************************************************************************)
\* The mean of the samples s as an output value: 0 when there are none.
MeanOf(s) == IF s = <<>> THEN Zero ELSE <<SumSeq(s), Len(s)>>

\* C25: a PidRegulator retains at most AverageSamples samples, the most
\* recent ones computed since it was last enabled, and its output is their
\* arithmetic mean, 0 when there are none (as right after a disable
\* followed by a re-enable).
C25_OutputIsWindowMean ==
    reg.kind = "PID" =>
        /\ Len(reg.samples) <= AverageSamples
        /\ reg.samples = LastOf(reg_last.log, AverageSamples)
        /\ Output(reg) = MeanOf(LastOf(reg_last.log, AverageSamples))

\* More samples than the window holds have been computed since the
\* regulator was last enabled, the oldest being different from the others.
C25_Witness ==
    /\ reg.kind = "PID"
    /\ reg.enabled
    /\ reg_last.op = "calculate"
    /\ Len(reg_last.log) = AverageSamples + 1
    /\ Head(reg_last.log) # reg_last.log[Len(reg_last.log)]
    /\ Head(reg_last.log) # Head(reg.samples)

\* C26: the output of a HysteresisRegulator is 0 or 0.05 and starts at 0;
\* it changes only in a calculate_output call, to 0.05 only with a
\* temperature at or below target - 1 and to 0 only with a temperature at
\* or above target + 1; a call of an enabled regulator with such a
\* temperature leaves the output at that value, and a call with a
\* temperature inside the band leaves it as it was, whatever the target
\* has been set to.
C26_HysteresisBand ==
    reg.kind = "Hysteresis" =>
        /\ Output(reg) \in {Zero, <<HystOn, 1>>}
        /\ reg_last.op = "new" => Output(reg) = Zero
        /\ Output(reg) # reg_last.was =>
              /\ reg_last.op = "calculate"
              /\ Output(reg) = <<HystOn, 1>> => reg_last.cur_temp <= reg.target - 1
              /\ Output(reg) = Zero => reg_last.cur_temp >= reg.target + 1
        /\ reg_last.op = "calculate" /\ reg.enabled =>
              /\ reg_last.cur_temp <= reg.target - 1 => Output(reg) = <<HystOn, 1>>
              /\ reg_last.cur_temp >= reg.target + 1 => Output(reg) = Zero
              /\ /\ reg_last.cur_temp > reg.target - 1
                 /\ reg_last.cur_temp < reg.target + 1
                 => Output(reg) = reg_last.was

\* A call with a temperature inside the band, after the target was changed,
\* has left the output at 0.05.
C26_Witness ==
    /\ reg.kind = "Hysteresis"
    /\ reg.enabled
    /\ reg_last.op = "calculate"
    /\ reg_last.cur_temp = reg.target
    /\ reg.target # DefaultTarget
    /\ Output(reg) = <<HystOn, 1>>

\* C27: the output of a regulator of either kind is within [0, 1].
C27_OutputInUnitRange ==
    /\ Output(reg)[1] >= 0
    /\ Output(reg)[1] <= OutputLimit * Output(reg)[2]

(***************************************************************************)
(* Claims about the Hub's output (SpecPidHub)                              *)
(***************************************************************************)
\* Output value a is at least output value b.
AtLeast(a, b) == a[1] * b[2] >= b[1] * a[2]

\* C28: after a tick whose body completed without exception, the Hub's
\* output is the maximum of the regulator outputs the tick read after the
\* zones' control steps: it is one of them, and none of them is greater.
C28_HubOutputIsMaximum ==
    hub_last.result = "ok" =>
        /\ \A z \in Zones : AtLeast(hub.output, hub_last.outputs_read[z])
        /\ \E z \in Zones :
              /\ AtLeast(hub_last.outputs_read[z], hub.output)
              /\ AtLeast(hub.output, hub_last.outputs_read[z])

(***************************************************************************)
(* Claims about what a circuit displays (SpecShown)                        *)
(***************************************************************************)
\* The circuit that was stepped last, and the zones it owns that had a
\* reading then.
Stepped == circuit_last.circuit

WithReading ==
    {z \in OwnedZones(Stepped) : circuit_last.readings[z] # None}

\* C29: after a control step of a circuit, the current temperature it
\* displays is the minimum of the readings of the owned zones that have a
\* reading, a reading of 0 included, and is unset only when none has one.
C29_ShownIsMinimumReading ==
    circuit_last.op = "step" =>
        IF WithReading = {}
        THEN circuits[Stepped].cur_temp = None
        ELSE /\ \E z \in WithReading :
                   circuits[Stepped].cur_temp = circuit_last.readings[z]
             /\ \A z \in WithReading :
                   circuits[Stepped].cur_temp <= circuit_last.readings[z]

\* The common value of the set values, or none when two values differ.
Agreed(values, none) ==
    IF \E v \in values : values = {v} THEN CHOOSE v \in values : TRUE ELSE none

\* C30: after a control step of a circuit, the target temperature, the HVAC
\* mode and the preset it displays are each the owned zones' common value
\* when the zones agree, and unset when two of them differ.
C30_ShownIsCommonValue ==
    circuit_last.op = "step" =>
        /\ circuits[Stepped].target = Agreed(circuit_last.targets, None)
        /\ circuits[Stepped].hvac_mode = Agreed(circuit_last.hvac_modes, "none")
        /\ circuits[Stepped].preset_mode =
               Agreed(circuit_last.preset_modes, "none")

\* The circuit that owns both zones was stepped while the zones agreed on
\* the preset and differed in target and HVAC mode.
C30_Witness ==
    /\ circuit_last.op = "step"
    /\ Cardinality(OwnedZones(Stepped)) > 1
    /\ Cardinality(circuit_last.targets) > 1
    /\ Cardinality(circuit_last.hvac_modes) > 1
    /\ circuit_last.preset_modes = {"away"}
    /\ circuits[Stepped].target = None
    /\ circuits[Stepped].preset_mode = "away"

(***************************************************************************)
(* Claims about the setters of a zone's climate entity (SpecClimate)       *)
(***************************************************************************)
\* C31: after any sequence of setter calls on the zones' climate entities,
\* made directly or through the circuit, the target temperature of every
\* zone's regulator is the target temperature its climate entity displays.
C31_RegulatorFollowsDisplayedTarget ==
    \A z \in Zones : zones[z].regulator.target = zones[z].target


\* C32: whatever presets the earlier setter calls have stored, selecting a
\* preset on a zone's climate entity completes without raising.
C32_SelectingPresetNeverRaises ==
    \A z \in Zones, preset_mode \in PresetModes :
        ~AsyncSetPresetMode(zones[z], preset_mode).raised


(***************************************************************************)
(* Claims about the Hub after the boiler has come back (SpecRecover)       *)
(***************************************************************************)
\* The boiler status is online and the last tick found it online.
BoilerIsBack ==
    /\ BoilerOnline(boiler_sensor)
    /\ ~hub.boiler.fault
    /\ hub_last.boiler_was = "online"

\* The valves of zone z are in "heat" although its regulator asks for no
\* heat: the state the fail-safe leaves.
ValvesInFailSafe(z) ==
    /\ zone_cfg[z].has_trvs
    /\ zones[z].trv_command = "heat"
    /\ ~Positive(RegulatorOutput(zones[z]))

\* The switches of circuit c are on although no owned zone asks for heat.
SwitchesInFailSafe(c) ==
    /\ circuits[c].switch_command = "on"
    /\ \A z \in OwnedZones(c) : ~Positive(RegulatorOutput(zones[z]))

\* C33: the fail-safe state does not persist after recovery: once the
\* boiler is back online, the valves still in "heat" without a regulator
\* asking for heat are eventually commanded according to the regulator
\* outputs (unless the boiler goes away again), also in zones whose
\* regulator is disabled.
C33_FailSafeDoesNotPersist ==
    (BoilerIsBack /\ (\E z \in Zones : ValvesInFailSafe(z)))
        ~> (  (\A z \in Zones : ~ValvesInFailSafe(z))
           \/ ~BoilerOnline(boiler_sensor))

\* The switches of the circuits do not stay in the fail-safe state: every
\* tick in which nothing raises commands them according to the outputs.
SwitchesRecover ==
    (BoilerIsBack /\ (\E c \in Circuits : SwitchesInFailSafe(c)))
        ~> (  (\A c \in Circuits : ~SwitchesInFailSafe(c))
           \/ ~BoilerOnline(boiler_sensor))

(***************************************************************************)
(* More claims about the stand-alone OnlineTracker (SpecTracker)           *)
(***************************************************************************)
\* The next call of is_online, made now with a false input.
NextFalseCall(callback_raises) ==
    IsOnline(tracker, FALSE, WaitInterval, tr_cb, callback_raises)

\* C34: a call in which the offline callback raised leaves the fault
\* indicator false and no deadline; the next call with a false input starts
\* a fresh grace period and returns true; and whenever a grace period has
\* elapsed with the fault indicator false, the callback is invoked again,
\* however often it was invoked in the same run of false inputs.
C34_RaisingCallbackRestartsGrace ==
    \A callback_raises \in BOOLEAN :
        /\ (tr_last.made /\ tr_last.raised) =>
              /\ ~tracker.fault
              /\ tracker.awaiter = None
              /\ NextFalseCall(callback_raises).ret
              /\ NextFalseCall(callback_raises).awaiter = WaitInterval
              /\ ~NextFalseCall(callback_raises).called
              /\ ~NextFalseCall(callback_raises).raised
        /\ (tr_cb /\ ~tracker.fault /\ tracker.awaiter # None
                  /\ Elapsed(tracker.awaiter)) =>
              NextFalseCall(callback_raises).called

\* The callback has just run for the second time in one run of false
\* inputs, after it raised earlier in that run.
C34_Witness ==
    /\ tr_last.made /\ ~tr_last.raw /\ tr_last.called
    /\ tr_ep.raised
    /\ tr_ep.calls >= 2


\* C40: in every state of the tracker, a set fault indicator and a pending
\* deadline exclude each other.
C40_GraceExcludesFaulted ==
    ~(tracker.fault /\ tracker.awaiter # None)

\* A call has just taken the tracker from a pending deadline to the fault.
C40_Witness ==
    /\ tr_last.made /\ ~tr_last.raw
    /\ tr_last.pre_awaiter # None /\ ~tr_last.pre_fault
    /\ tracker.fault /\ tracker.awaiter = None


(***************************************************************************)
(* More claims about one zone's control step (SpecZone)                    *)
(***************************************************************************)
\* The try block of the next control step of TheZone, with input in.
BodyFromHere(in) ==
    ControlTemperatureBody(zones[TheZone], zone_cfg[TheZone], in.cur_temp,
                           WindowOpen(window_state[TheZone]), in.sample, in.fail)

\* The inputs of a control step with the reading unavailable.
StepInputsNoReading ==
    [cur_temp : {None}, sample : {0}, fail : FailPoints \cup {"none"}]

\* What an early return must leave as it was, b being the outcome of the
\* try block.
EarlyReturnFrame(z, b) ==
    /\ b.zone.regulator.samples = z.regulator.samples
    /\ Output(b.zone.regulator) = Output(z.regulator)
    /\ b.temp_write = None
    /\ b.zone.output_display = z.output_display
    /\ b.zone.trv_command = z.trv_command
    /\ b.zone.trv_open = z.trv_open
    /\ b.zone.control_fault = z.control_fault
    /\ b.fault_write = "none"

\* C35: a control step that finds the regulator enabled and the reading
\* unavailable returns early, and leaves the regulator's samples and output,
\* the displayed current temperature, the output display, the valves, the
\* valve-open indicator and the control fault indicator as they were.
C35_EarlyReturnChangesNothing ==
    \A in \in StepInputsNoReading :
        LET b == BodyFromHere(in) IN
        /\ (~b.raised /\ b.zone.regulator.enabled) => b.early
        /\ b.early => EarlyReturnFrame(zones[TheZone], b)

\* An early return has just left a set control fault, a published output
\* and recorded samples in place.
C35_Witness ==
    /\ zone_last[TheZone].ran /\ zone_last[TheZone].early
    /\ zones[TheZone].control_fault
    /\ zones[TheZone].regulator.samples # <<>>
    /\ Positive(zones[TheZone].output_display)


\* The inputs of a control step of TheZone.
StepInputs ==
    UNION {[cur_temp : {cur_temp},
            sample : SamplesFor(zone_cfg[TheZone], cur_temp, fail),
            fail : {fail}] :
              cur_temp \in Readings, fail \in FailPoints \cup {"none"}}

\* C36: a control step that leaves the regulator disabled gives no valve
\* command and leaves the valves and the valve-open indicator as they were.
C36_DisabledStepLeavesValves ==
    \A in \in StepInputs :
        LET b == BodyFromHere(in) IN
        ~b.zone.regulator.enabled =>
            /\ b.valve_write = "none"
            /\ b.zone.trv_command = zones[TheZone].trv_command
            /\ b.zone.trv_open = zones[TheZone].trv_open

\* A step has just left the regulator disabled, with the valves still in
\* "heat" and the valve-open indicator on although the output is 0.
C36_Witness ==
    /\ zone_last[TheZone].ran /\ ~zone_last[TheZone].raised
    /\ ~zones[TheZone].regulator.enabled
    /\ zones[TheZone].trv_command = "heat"
    /\ zones[TheZone].trv_open
    /\ ~Positive(zones[TheZone].output_display)


(***************************************************************************)
(* More claims about the Hub's tick (Spec)                                 *)
(***************************************************************************)
\* The circuits that come after circuit c in the order of the tick.
LaterCircuits(c) ==
    {CircuitOrder[j] : j \in {i \in DOMAIN CircuitOrder :
                                 \E k \in 1..(i - 1) : CircuitOrder[k] = c}}

\* What a tick that ended as r shows when the step of circuit c raised in
\* it.
CircuitFaultReachesHub(r, c) ==
    /\ r.last.result = "caught"
    /\ r.hub.control_fault
    /\ r.hub.output = hub.output
    /\ r.last.zones_run = Zones
    /\ r.last.circuits_run \cap LaterCircuits(c) = {}
    /\ \A d \in LaterCircuits(c) : r.circuits[d] = circuits[d]

\* C37: when the control step of a circuit raises in a tick, the Hub's
\* control fault is set in that tick, the circuits later in the order are
\* not controlled, the Hub's output is not updated, and every zone step of
\* the tick has completed.
C37_CircuitFaultStopsTick ==
    \A in \in HubTickInputs :
        LET r == TickFromHere(in) IN
        \A c \in r.last.circuits_raised : CircuitFaultReachesHub(r, c)

\* A tick has just ended in which the step of the first circuit raised
\* after both zone steps, the second circuit was not controlled, and the
\* control fault was set.
C37_Witness ==
    /\ hub_last.result = "caught"
    /\ hub_last.circuits_raised = {1}
    /\ hub_last.circuits_run = {1}
    /\ hub_last.zones_run = Zones
    /\ hub.control_fault


(***************************************************************************)
(* Claims about the stand-alone RetryTracker (SpecRetry)                   *)
(***************************************************************************)
RECURSIVE Power(_, _)
Power(b, n) == IF n = 0 THEN 1 ELSE b * Power(b, n - 1)

\* The delay after n consecutive set_fault calls: 1, 2, 4, 8, 16, 16, ...
BackoffDelay(n) ==
    IF n = 0 THEN 0 ELSE Min(StartDelay * Power(IncreaseFactor, n - 1), MaxDelay)

\* C38: the n-th consecutive set_fault call gives the delay 1, 2, 4, 8, 16,
\* 16, ..., never above max_delay; is_fault holds from the first of them
\* on; reset_fault returns the delay to 0 and is_fault to false; and
\* should_try holds exactly when there is no fault or the current delay
\* has passed since the last set_fault.
C38_CappedExponentialBackoff ==
    /\ retry.cur_delay = BackoffDelay(retry_ep.faults)
    /\ retry.cur_delay <= MaxDelay
    /\ (retry.awaiter # None) = (retry_ep.faults > 0)
    /\ ResetFault(retry) = [cur_delay |-> 0, awaiter |-> None]
    /\ ShouldTry(ResetFault(retry))
    /\ ShouldTry(retry) =
          (retry.awaiter = None \/ retry_ep.since >= retry.cur_delay)

\* The delay has reached its cap and has just passed, a second after it
\* had not.
C38_Witness ==
    /\ retry_ep.faults = MaxFaults
    /\ retry.cur_delay = MaxDelay
    /\ retry_ep.op = "second"
    /\ retry_ep.since = MaxDelay
    /\ ShouldTry(retry)


(***************************************************************************)
(* More claims about a zone with a window sensor (SpecWindow)              *)
(***************************************************************************)
\* What a second call of should_heat() does at the instant and with the
\* window sensor states of a first call that ended as first.
SecondCallRepeats(first, window_open) ==
    LET second == ShouldHeat(first.window, window_open) IN
    /\ second.ret = first.ret
    /\ second.window = first.window
    /\ ~second.wrote

\* C39: should_heat() called twice at one instant with the same window
\* sensor states, as a control step does, returns the same value the second
\* time, changes no state and does not write the window indicator.
C39_ShouldHeatIsIdempotent ==
    \A z \in Zones, window_open \in BOOLEAN :
        SecondCallRepeats(ShouldHeat(zones[z].window, window_open), window_open)

\* A control step has just called should_heat() twice, for the enabled
\* flag and before it commanded the valves, with the window closed and no
\* warm-up pending.
C39_Witness ==
    /\ zone_cfg[TheZone].has_trvs
    /\ zone_last[TheZone].ran /\ ~zone_last[TheZone].raised
    /\ ~zone_last[TheZone].early
    /\ zone_last[TheZone].may_heat
    /\ zones[TheZone].regulator.enabled
    /\ zones[TheZone].trv_command # "none"
    /\ zones[TheZone].window = [last_open |-> FALSE, warmup_time |-> None]
    /\ since_open[TheZone] >= WarmupTime

====
